---- MODULE Spec2Model ----
\* Voice-call orchestration of PBXLink: one call session driven by
\* handle_call (blueprints/ai_agent_integrated.py), with the telephony
\* channel, the speech services and the language model as environment.
EXTENDS Integers, Sequences, FiniteSets, TLC

\* ---------------------------------------------------------------------
\* Program constants and model bounds
\* ---------------------------------------------------------------------

\* AIAgentConfigContainer.max_turns, the turn limit the deployment is
\* configured with: config_dict.get('max_turns', 6)
max_turns == 4

\* datetime.utcnow() at cleanup, relative to the reading taken in
\* Call.__init__: MaxClock later, the same, or MaxClock earlier when the
\* wall clock was stepped back in between
MaxClock == 1

ClockValues == {0 - MaxClock, 0, MaxClock}

\* tool calls the model requests during one call
MaxToolCalls == 1

\* tool calls carried by one model reply
MaxReplyTools == 2

\* phrases that cannot be synthesized (both engines fail) during one call
MaxTtsFailures == 1

\* spoken lines of the session
Lines == {"greeting", "trouble", "retry_noinput", "callback", "retry_unclear",
          "farewell", "response", "thanks", "connecting"}

\* tool names the model may request (tc.function.name)
Tools == {"end_call", "create_ticket", "schedule_callback", "transfer_to_agent"}

NoFn == "none"

\* transcripts, abstracted to what the session inspects: the character
\* length (len(text)), the word count (len(text.split())) and whether one
\* of the goodbye phrases occurs in the lowercased text
Texts ==
    { [chars |-> 0,  words |-> 0, phrase |-> FALSE],     \* ""
      [chars |-> 2,  words |-> 1, phrase |-> FALSE],     \* "ok"
      [chars |-> 3,  words |-> 1, phrase |-> TRUE],      \* "bye"
      [chars |-> 3,  words |-> 1, phrase |-> FALSE],     \* "yes"
      [chars |-> 31, words |-> 7, phrase |-> TRUE] }     \* "thanks i want to check my claim"

NoText == [chars |-> 0, words |-> 0, phrase |-> FALSE]

\* answers of the telephony engine to a request for the stored recording:
\* HTTP status and length of the body
Answers == [status : {200, 404}, bytes : {4000, 4001}]

\* no answer at all: the request was never made, or it raised
NoAnswer == [status |-> 0, bytes |-> 0]

\* no audio file at the path given to transcribe (os.path.getsize raises)
NoFile == 0 - 1

\* the recognition engine was not reached
NoOutcome == [reason |-> "none", text |-> << >>]

\* transcribe has not returned
NoResult == [text |-> << >>, confidence |-> "none"]

\* concurrent call sessions of the service
Sess == {"s1", "s2"}

\* cache keys (SoundCache._key: the MD5 digest of the text); distinct texts
\* are taken to have distinct digests
Keys == {"k1", "k2"}

NoKey == "-"

\* the single StandaloneSSH object handed to every handle_call
SharedSSH == "ssh"

VARIABLES
    pc,                 \* position of handle_call
    chanUp,             \* the channel exists on the telephony engine
    playing,            \* the playback last started on the channel is still in progress
    handedOff,          \* continueInDialplan succeeded: channel left the application
    active,             \* Call.active
    should_end,         \* Call.should_end
    iter,               \* loop iterations started (turn_num + 1)
    no_speech_count,    \* Call.no_speech_count
    unclear_count,      \* Call.unclear_count
    turn_count,         \* Call.turn_count
    functions_called,   \* Call.functions_called
    rec,                \* result of call.record() in the current turn
    download,           \* answer that decided the download of the recording
    transcribed,        \* call.transcribe(rec) has returned in the current turn
    text,               \* transcript of the current turn
    confidence,         \* confidence of the current turn
    tool_calls,         \* msg.tool_calls of the first model reply, as tool names
    tc_fn,              \* tool requested by the model in get_ai_response
    fn,                 \* tool name returned to handle_call
    resp,               \* utterance returned to handle_call
    call_log,           \* the AIAgentCallLog row
    said,               \* calls of Call.speak per line
    heard,              \* play commands of Call.speak that were accepted, per line
    hist                \* observations of the run (commands, exits, counters at turn start)

\* the sound cache and the uploader, shared by the sessions of the service
VARIABLES
    impl,               \* module in use: ai_agent_integrated (one StandaloneSSH for
                        \* all sessions) or ai_agent_handler (one uploader per cache)
    index,              \* SoundCache.index of each session's cache, as the keys held
    index_file,         \* content of CACHE_INDEX_FILE, as the keys held
    cache_dir,          \* keys k with a file CACHE_DIR/k.wav
    sounds_dir,         \* keys k with a file c_k.wav in ASTERISK_SOUNDS_DIR
    lock,               \* holder of each uploader's asyncio.Lock
    get_pc,             \* position of each session inside SoundCache.get
    get_key,            \* key of the text each session is getting
    gets                \* the last calls of get on each session's cache

cacheVars == <<impl, index, index_file, cache_dir, sounds_dir, lock, get_pc,
               get_key, gets>>

\* Call._download, the retrieval of one stored recording
VARIABLES
    dl_pc,              \* position inside _download
    attempt,            \* loop variable of _download: requests answered so far
    dl_log,             \* per request made: the answer and the sleep that followed
    dl_result           \* what _download returned

downloadVars == <<dl_pc, attempt, dl_log, dl_result>>

\* Call.transcribe of one audio file
VARIABLES
    tr_pc,              \* position inside transcribe
    audio_file,         \* size in bytes of the file passed in, -1 if there is none
    processed,          \* value of the local "processed"
    proc_file,          \* the intermediate file (_proc.wav) exists
    preprocessed,       \* _preprocess_audio has been called
    recognitions,       \* invocations of the recognition engine
    engine_result,      \* what the recognition did: its result, or that it raised
    tr_result           \* the pair transcribe returned

transcribeVars == <<tr_pc, audio_file, processed, proc_file, preprocessed,
                    recognitions, engine_result, tr_result>>

\* Call.get_ai_response over the turns of one session
VARIABLES
    ai_pc,              \* position inside get_ai_response
    ai_turn,            \* turns that reached the engine so far
    ai_confidence,      \* the argument "confidence"
    ai_fn,              \* the local "fn": name of the tool of this turn
    conversation,       \* Call.conversation (ctx.messages in agent.py), by kind of message
    messages,           \* the local "messages" of get_ai_response
    last_was_clarification,  \* ctx.last_was_clarification (agent.py only)
    requests            \* the requests sent to the model so far

engineVars == <<ai_pc, ai_turn, ai_confidence, ai_fn, conversation, messages,
                last_was_clarification, requests>>

\* the bookkeeping of the turns of one call
VARIABLES
    turn_rows,          \* AIAgentTurn rows committed for the call, by turn_number
    ledger              \* observation of the turns of the call

ledgerVars == <<turn_rows, ledger>>

\* AIAgentService, the object that starts and stops the worker thread
VARIABLES
    running,            \* AIAgentService.running
    service_state,      \* AIAgentService._service_state
    thread,             \* AIAgentService.thread: the worker created last, 0 for None
    workers,            \* where each worker thread is in _run_service
    total_calls_handled, \* stats['total_calls_handled']
    lifecycle           \* observation of what start, stop and the workers did

lifecycleVars == <<running, service_state, thread, workers, total_calls_handled, lifecycle>>

serviceVars == <<cacheVars, downloadVars, transcribeVars, engineVars, ledgerVars,
                 lifecycleVars>>

sessionVars == <<pc, chanUp, playing, handedOff, active, should_end, iter, no_speech_count,
                 unclear_count, turn_count, functions_called, rec, download, transcribed, text,
                 confidence, tool_calls, tc_fn, fn, resp, call_log, said, heard, hist>>

vars == <<sessionVars, serviceVars>>

\* the attributes of the Call object among them
callFields == <<should_end, iter, no_speech_count, unclear_count, turn_count,
                functions_called, call_log>>

\* the locals of the loop body
loopLocals == <<rec, download, transcribed, text, confidence, tool_calls, tc_fn, fn, resp>>

\* the locals of the loop body (rec, text, confidence, resp, fn and what
\* get_ai_response held) are never read once the iteration that assigned
\* them is over: the next one assigns each before reading it
LocalsReleased ==
    /\ rec' = FALSE /\ download' = NoAnswer
    /\ transcribed' = FALSE /\ text' = NoText /\ confidence' = "low"
    /\ tool_calls' = << >> /\ tc_fn' = NoFn /\ fn' = NoFn /\ resp' = ""

callVars == <<should_end, iter, no_speech_count, unclear_count, turn_count,
              functions_called, rec, download, transcribed, text, confidence, tool_calls, tc_fn, fn,
              resp, call_log>>

\* ---------------------------------------------------------------------
\* Helpers
\* ---------------------------------------------------------------------

\* what fetch_customer_data met: claims found, none found, service not
\* configured, no token, query answered with an error status, request timed out
LookupOutcomes == {"found", "no_claims", "unconfigured", "token_failed",
                   "http_error", "timeout"}

\* requests.get raises inside fetch_customer_claims, which nothing catches
LookupRaises(o) == o = "timeout"

\* a channel command (answer, play, record, continue, hangup) raises when
\* the channel is gone or no longer in the application
CommandRaises == ~chanUp \/ handedOff

\* bookkeeping of one channel command sent by the session
Issue(h, kind) ==
    [h EXCEPT !.afterHandoff = IF handedOff THEN @ + 1 ELSE @,
              !.playsAfterInactive = IF kind = "play" /\ h.livenessFailed THEN @ + 1 ELSE @]

\* timedelta.seconds of (call_end - call_start)
TimedeltaSeconds(start, end) == (end - start) % 86400

\* Call._is_goodbye
IsGoodbye(t) == t.words <= 4 /\ t.phrase

\* variant: the length test admits one character too many
IsUnclearOffByOne(t) == t.chars = 0 \/ t.chars <= 3

\* handle_call: "if not text or len(text) < 3"
IsUnclear(t) == t.chars = 0 \/ t.chars < 3

\* variant: the apology line only after a third silent turn
NoSpeechLimitThree(n) == n >= 3

\* handle_call: "if call.no_speech_count >= 2"
NoSpeechLimitReached(n) == n >= 2

\* variant: the callback offer only after a third unclear turn
UnclearLimitThree(n) == n >= 3

\* handle_call: "if call.unclear_count >= 2"
UnclearLimitReached(n) == n >= 2

\* variant: range(config.max_turns + 1)
LoopHasNextOffByOne == iter <= max_turns

\* handle_call: "for turn_num in range(config.max_turns)"
LoopHasNext == iter < max_turns

\* Call.speak: "await asyncio.sleep((duration or len(text.split()) * 0.4) + 0.5)"
\* follows the play command without waiting for the end of the playback.
\* The pause covers the playback when the cache knows the duration of the
\* file; when it does not (_duration returned None) the pause is an estimate
\* from the number of words and the playback may outlast it.
PlayingAfterSpeak(known) == IF known THEN {FALSE} ELSE BOOLEAN

\* the pause after a cue is config.beep_pause, or 0.1 s after the
\* acknowledging cue, whatever the length of the cue: the cue may outlast it
PlayingAfterBeep == BOOLEAN

\* Call.speak(line) with result ok; h is the observation record to extend
Speak(line, ok, h) ==
    /\ said' = [said EXCEPT ![line] = @ + 1]
    /\ \/ /\ ~active                          \* alive(): flag already cleared
          /\ ok = FALSE
          /\ UNCHANGED <<active, chanUp, heard, playing>>
          /\ hist' = h
       \/ /\ active /\ ~chanUp                \* alive(): channels.get raises
          /\ ok = FALSE
          /\ active' = FALSE
          /\ UNCHANGED <<chanUp, heard, playing>>
          /\ hist' = [h EXCEPT !.livenessFailed = TRUE]
       \/ /\ active /\ chanUp                 \* cache.get returns (None, None)
          /\ h.ttsFailures < MaxTtsFailures
          /\ ok = FALSE
          /\ UNCHANGED <<active, chanUp, heard, playing>>
          /\ hist' = [h EXCEPT !.ttsFailures = @ + 1]
       \/ /\ active /\ chanUp /\ ~handedOff   \* play accepted
          /\ ok = TRUE
          /\ heard' = [heard EXCEPT ![line] = @ + 1]
          /\ \E known \in BOOLEAN : playing' \in PlayingAfterSpeak(known)
          /\ UNCHANGED <<active, chanUp>>
          /\ hist' = Issue(h, "play")
       \/ /\ active /\ chanUp /\ handedOff    \* play raises: not in the application
          /\ ok = FALSE
          /\ active' = FALSE
          /\ UNCHANGED <<chanUp, heard, playing>>
          /\ hist' = Issue(h, "play")
       \/ /\ active /\ chanUp /\ ~handedOff   \* caller hangs up before play: it raises
          /\ ok = FALSE
          /\ active' = FALSE
          /\ chanUp' = FALSE
          /\ playing' = FALSE
          /\ UNCHANGED heard
          /\ hist' = Issue(h, "play")

\* observation: nsBefore and ucBefore hold the counters as they were when
\* the current iteration began, and nothing between two iterations
IterationOver(h) == [h EXCEPT !.nsBefore = 0, !.ucBefore = 0]

\* call.channel.play(media="sound:beep") followed by the pacing sleep
Beep(next) ==
    /\ pc' = IF CommandRaises THEN "except" ELSE next
    /\ hist' = Issue(IF pc' = "loop" THEN IterationOver(hist) ELSE hist, "play")
    /\ IF CommandRaises THEN playing' = playing ELSE playing' \in PlayingAfterBeep
    /\ IF pc' = "loop" THEN LocalsReleased ELSE UNCHANGED loopLocals
    /\ UNCHANGED <<chanUp, handedOff, active, said, heard>>
    /\ UNCHANGED callFields
    /\ UNCHANGED serviceVars

\* ---------------------------------------------------------------------
\* Initial state: the call-start event has arrived, nothing constructed yet
\* ---------------------------------------------------------------------

SessionIdle ==
    /\ pc = "start"
    /\ playing = FALSE
    /\ chanUp = TRUE
    /\ handedOff = FALSE
    /\ active = FALSE
    /\ should_end = FALSE
    /\ iter = 0
    /\ no_speech_count = 0
    /\ unclear_count = 0
    /\ turn_count = 0
    /\ functions_called = << >>
    /\ rec = FALSE
    /\ download = NoAnswer
    /\ transcribed = FALSE
    /\ text = NoText
    /\ confidence = "low"
    /\ tool_calls = << >>
    /\ tc_fn = NoFn
    /\ fn = NoFn
    /\ resp = ""
    /\ call_log = [state |-> "none", call_start |-> 0, call_end |-> 0,
                   call_duration |-> 0, transferred_to |-> FALSE,
                   turns_count |-> 0, no_speech_count |-> 0, unclear_count |-> 0]
    /\ said = [l \in Lines |-> 0]
    /\ heard = [l \in Lines |-> 0]
    /\ hist = [ttsFailures |-> 0, afterHandoff |-> 0, playsAfterInactive |-> 0,
               livenessFailed |-> FALSE, records |-> 0, engineCalls |-> 0,
               exit |-> "none", raised |-> FALSE, escaped |-> FALSE,
               hangupCalls |-> 0, hangupIssued |-> FALSE,
               nullRun |-> 0, nullRunAt |-> 0,
               nsBefore |-> 0, ucBefore |-> 0,
               niRun |-> 0, ucRun |-> 0, byeAt |-> 0, byeRecords |-> 0, byeEngine |-> 0]

\* no cache constructed yet, nothing synthesized or uploaded
CacheEmpty ==
    /\ index = [s \in Sess |-> {}]
    /\ index_file = {}
    /\ cache_dir = {}
    /\ sounds_dir = {}
    /\ lock = [u \in {SharedSSH} \cup Sess |-> "free"]
    /\ get_pc = [s \in Sess |-> "none"]
    /\ get_key = [s \in Sess |-> NoKey]
    /\ gets = [s \in Sess |-> << >>]

\* handle_call of ai_agent_integrated is the session modelled
CacheIdle == impl = "integrated" /\ CacheEmpty

\* _download not called
DownloadIdle ==
    /\ dl_pc = "idle"
    /\ attempt = 0
    /\ dl_log = << >>
    /\ dl_result = "pending"

\* transcribe not called
TranscribeIdle ==
    /\ tr_pc = "idle"
    /\ processed = "none"
    /\ proc_file = FALSE
    /\ preprocessed = FALSE
    /\ recognitions = 0
    /\ engine_result = NoOutcome
    /\ tr_result = NoResult

\* the history as handle_call leaves it before the loop: the system prompt
\* and the greeting; no request made yet
EngineIdle ==
    /\ ai_pc = "idle"
    /\ ai_turn = 0
    /\ ai_confidence = "high"
    /\ ai_fn = NoFn
    /\ conversation = <<"system", "assistant">>
    /\ messages = << >>
    /\ last_was_clarification = FALSE
    /\ requests = << >>

\* no turn row written, nothing observed
LedgerIdle ==
    /\ turn_rows = << >>
    /\ ledger = [kind |-> "none", noInputTurns |-> 0, unclearTurns |-> 0,
                 engineCalls |-> 0, convBefore |-> << >>, turnsBefore |-> 0,
                 rowsBefore |-> << >>]

\* bound: worker threads the service creates in one run of the application
MaxWorkers == 3

\* bound: inbound calls followed
MaxCalls == 2

WorkerIds == 1 .. MaxWorkers

\* AIAgentService.__init__: running False, thread None, state "stopped"
LifecycleIdle ==
    /\ running = FALSE
    /\ service_state = "stopped"
    /\ thread = 0
    /\ workers = [w \in WorkerIds |-> "unborn"]
    /\ total_calls_handled = 0
    /\ lifecycle = [stopReturned |-> FALSE, handledAfterStop |-> 0, lastStart |-> "none",
                    lastStop |-> "none"]

ServicesIdle ==
    /\ CacheIdle /\ DownloadIdle /\ TranscribeIdle /\ audio_file = NoFile
    /\ EngineIdle /\ LedgerIdle /\ LifecycleIdle

Init == SessionIdle /\ ServicesIdle


\* ---------------------------------------------------------------------
\* Environment
\* ---------------------------------------------------------------------

\* the caller hangs up (or the channel is otherwise destroyed)
ChannelDies ==
    /\ pc \notin {"start", "create", "done"}
    /\ chanUp
    /\ chanUp' = FALSE
    /\ playing' = FALSE
    /\ UNCHANGED <<pc, handedOff, active, said, heard, hist>>
    /\ UNCHANGED callVars
    /\ UNCHANGED serviceVars

\* ---------------------------------------------------------------------
\* handle_call, before the try block
\* ---------------------------------------------------------------------

\* fetch_customer_data returns a profile (the one found, or the default one
\* when the service is not configured, no token is obtained, the query is
\* answered with an error status or no claim matches); requests.get
\* and response.json() are called outside every try block, so a timeout, a
\* connection error or an unreadable body leaves handle_call at once
FetchCustomerData ==
    /\ pc = "start"
    /\ \E o \in LookupOutcomes :
          IF LookupRaises(o)
          THEN /\ pc' = "done"
               /\ hist' = [hist EXCEPT !.escaped = TRUE, !.exit = "lookup_error"]
          ELSE /\ pc' = "create"
               /\ hist' = hist
    /\ UNCHANGED <<chanUp, handedOff, active, should_end, iter, no_speech_count,
                   unclear_count, turn_count, functions_called, rec, download, transcribed,
                   text, confidence, tool_calls, tc_fn, fn, resp, call_log, said, heard>>
    /\ UNCHANGED <<playing, serviceVars>>

\* Call.__init__: state set, call-log row inserted and committed
CreateCall ==
    /\ pc = "create"
    /\ call_log' = [call_log EXCEPT !.state = "open", !.call_start = 0]
    /\ active' = TRUE
    /\ pc' = "setup"
    /\ UNCHANGED <<chanUp, handedOff, should_end, iter, no_speech_count,
                   unclear_count, turn_count, functions_called, rec, download, transcribed,
                   text, confidence, tool_calls, tc_fn, fn, resp, said, heard, hist>>
    /\ UNCHANGED <<playing, serviceVars>>

\* caller_name / customer_data written and committed; the commit is outside
\* the try block, so a failure leaves handle_call without cleanup
SetCallerInfo ==
    /\ pc = "setup"
    /\ \/ /\ pc' = "answer"
          /\ hist' = hist
       \/ /\ pc' = "done"
          /\ hist' = [hist EXCEPT !.escaped = TRUE, !.exit = "setup_error"]
    /\ UNCHANGED <<chanUp, handedOff, active, said, heard>>
    /\ UNCHANGED callVars
    /\ UNCHANGED <<playing, serviceVars>>

\* ---------------------------------------------------------------------
\* handle_call, greeting
\* ---------------------------------------------------------------------

\* channel.answer()
Answer ==
    /\ pc = "answer"
    /\ hist' = Issue(hist, "answer")
    /\ pc' = IF CommandRaises THEN "except" ELSE "greeting"
    /\ UNCHANGED <<chanUp, handedOff, active, said, heard>>
    /\ UNCHANGED callVars
    /\ UNCHANGED <<playing, serviceVars>>

\* "if not await call.speak(greeting): return"
Greeting ==
    /\ pc = "greeting"
    /\ \E ok \in BOOLEAN :
          /\ Speak("greeting", ok, IF ok THEN hist ELSE [hist EXCEPT !.exit = "greeting_failed"])
          /\ pc' = IF ok THEN "beep_greeting" ELSE "cleanup"
    /\ UNCHANGED handedOff
    /\ UNCHANGED callVars
    /\ UNCHANGED serviceVars

BeepGreeting == pc = "beep_greeting" /\ Beep("loop")

\* ---------------------------------------------------------------------
\* handle_call, turn loop
\* ---------------------------------------------------------------------

\* "for turn_num in range(config.max_turns): if not call.active or call.should_end: break"
LoopTop ==
    /\ pc = "loop"
    /\ IF ~LoopHasNext
         THEN /\ pc' = "final"
              /\ hist' = [hist EXCEPT !.exit = "exhausted"]
              /\ iter' = iter
         ELSE IF ~active \/ should_end
                THEN /\ pc' = "final"
                     /\ hist' = [hist EXCEPT !.exit = "top_break"]
                     /\ iter' = iter + 1
                ELSE /\ pc' = "record"
                     /\ hist' = [hist EXCEPT !.nsBefore = no_speech_count,
                                             !.ucBefore = unclear_count]
                     /\ iter' = iter + 1
    \* the locals of the previous iteration are dead once a new one starts:
    \* each is assigned before it is read again
    /\ IF pc' = "record"
         THEN /\ rec' = FALSE /\ download' = NoAnswer
              /\ transcribed' = FALSE /\ text' = NoText
              /\ confidence' = "low" /\ tool_calls' = << >> /\ tc_fn' = NoFn
              /\ fn' = NoFn /\ resp' = ""
         ELSE UNCHANGED <<rec, download, transcribed, text, confidence, tool_calls, tc_fn, fn, resp>>
    /\ UNCHANGED <<chanUp, handedOff, active, should_end, no_speech_count,
                   unclear_count, turn_count, functions_called, call_log, said, heard>>
    /\ UNCHANGED <<playing, serviceVars>>

\* variant: a body of exactly 4000 bytes is accepted as well
DownloadAcceptsAtThreshold(status, bytes) == status = 200 /\ bytes >= 4000

\* _download: "if r.status_code == 200 and len(r.content) > 4000"
DownloadAccepts(status, bytes) == status = 200 /\ bytes > 4000

\* observation of the result of one record()
Recorded(h, got) ==
    [h EXCEPT !.nullRun = IF got THEN 0 ELSE @ + 1,
              !.niRun = IF got THEN 0 ELSE @,
              !.nullRunAt = IF ~got /\ h.nullRun = 1 THEN iter ELSE @]

\* Call.record(): liveness check, record command, wait, stop, download
Record ==
    /\ pc = "record"
    /\ \/ /\ ~active
          /\ rec' = FALSE
          /\ download' = NoAnswer
          /\ hist' = Recorded(hist, FALSE)
          /\ UNCHANGED <<active, chanUp, playing>>
       \/ /\ active /\ ~chanUp                  \* channels.get raises
          /\ rec' = FALSE
          /\ download' = NoAnswer
          /\ active' = FALSE
          /\ hist' = Recorded([hist EXCEPT !.livenessFailed = TRUE], FALSE)
          /\ UNCHANGED <<chanUp, playing>>
       \/ /\ active /\ chanUp
          \* a is the answer _download returned on, or the last one it gave
          \* up on; NoAnswer when the record command or every request raised
          /\ \E a \in Answers \cup {NoAnswer}, hung \in BOOLEAN :
                LET got == a # NoAnswer /\ DownloadAccepts(a.status, a.bytes)
                IN  /\ handedOff => (a = NoAnswer /\ ~hung)  \* record command raises after hand-off
                    /\ got => ~hung                 \* a caller who hung up left no file
                    /\ rec' = got
                    /\ download' = a
                    /\ chanUp' = ~hung
                    /\ playing' = (playing /\ ~hung)
                    /\ hist' = Recorded([Issue(hist, "record") EXCEPT !.records = @ + 1], got)
          /\ UNCHANGED active
    /\ pc' = "beep_ack"
    /\ UNCHANGED <<handedOff, should_end, iter, no_speech_count, unclear_count,
                   turn_count, functions_called, transcribed, text, confidence,
                   tool_calls, tc_fn, fn, resp, call_log, said, heard>>
    /\ UNCHANGED serviceVars

\* "Beep acknowledge"
BeepAck == pc = "beep_ack" /\ Beep("after_ack")

\* "if not rec:" branch
NoInput ==
    /\ pc = "after_ack"
    /\ ~rec
    /\ no_speech_count' = no_speech_count + 1
    /\ IF NoSpeechLimitReached(no_speech_count + 1)
         THEN /\ \E ok \in BOOLEAN :
                    Speak("trouble", ok, [hist EXCEPT !.exit = "no_input"])
              /\ pc' = "final"
         ELSE /\ \E ok \in BOOLEAN :
                    Speak("retry_noinput", ok,
                          IF ok THEN [hist EXCEPT !.niRun = @ + 1] ELSE hist)
              /\ pc' = "beep_noinput"
    /\ UNCHANGED <<handedOff, should_end, iter, unclear_count, turn_count,
                   functions_called, rec, download, transcribed, text, confidence, tool_calls, tc_fn,
                   fn, resp, call_log>>
    /\ UNCHANGED serviceVars

BeepNoInput == pc = "beep_noinput" /\ Beep("loop")

\* variant: a single word is not trusted
ConfidenceFromWords(t) == IF t.words > 1 THEN "high" ELSE "low"

\* Call.transcribe: 'confidence = "high" if text else "low"'
ConfidenceFor(t) == IF t.chars > 0 THEN "high" ELSE "low"

\* variant: the no-input counter is not reset after a recording
TranscribeKeepsCount ==
    /\ pc = "after_ack"
    /\ rec
    /\ \E t \in Texts :
          /\ text' = t
          /\ confidence' = ConfidenceFor(t)
    /\ transcribed' = TRUE
    /\ pc' = "check_text"
    /\ UNCHANGED <<chanUp, handedOff, active, should_end, iter, no_speech_count,
                   unclear_count, turn_count, functions_called, rec, download, tool_calls, tc_fn, fn,
                   resp, call_log, said, heard, hist>>
    /\ UNCHANGED <<playing, serviceVars>>

\* "text, confidence = await call.transcribe(rec); call.no_speech_count = 0"
\* transcribe never raises; every failure yields ("", "low")
Transcribe ==
    /\ pc = "after_ack"
    /\ rec
    /\ \E t \in Texts :
          /\ text' = t
          /\ confidence' = ConfidenceFor(t)
    /\ transcribed' = TRUE
    /\ no_speech_count' = 0
    /\ pc' = "check_text"
    /\ UNCHANGED <<chanUp, handedOff, active, should_end, iter, unclear_count,
                   turn_count, functions_called, rec, download, tool_calls, tc_fn, fn, resp, call_log,
                   said, heard, hist>>
    /\ UNCHANGED <<playing, serviceVars>>

\* "if not text or len(text) < 3:" branch
Unclear ==
    /\ pc = "check_text"
    /\ IsUnclear(text)
    /\ unclear_count' = unclear_count + 1
    /\ IF UnclearLimitReached(unclear_count + 1)
         THEN /\ \E ok \in BOOLEAN :
                    Speak("callback", ok, [hist EXCEPT !.exit = "unclear"])
              /\ pc' = "final"
         ELSE /\ \E ok \in BOOLEAN :
                    Speak("retry_unclear", ok,
                          IF ok THEN [hist EXCEPT !.ucRun = @ + 1] ELSE hist)
              /\ pc' = "beep_unclear"
    /\ UNCHANGED <<handedOff, should_end, iter, no_speech_count, turn_count,
                   functions_called, rec, download, transcribed, text, confidence, tool_calls, tc_fn,
                   fn, resp, call_log>>
    /\ UNCHANGED serviceVars

BeepUnclear == pc = "beep_unclear" /\ Beep("loop")

\* "call.unclear_count = 0" and the goodbye check
ClearText ==
    /\ pc = "check_text"
    /\ ~IsUnclear(text)
    /\ unclear_count' = 0
    /\ IF IsGoodbye(text)
         THEN /\ pc' = "goodbye"
              /\ hist' = [hist EXCEPT !.ucRun = 0, !.byeAt = iter,
                                      !.byeRecords = hist.records,
                                      !.byeEngine = hist.engineCalls]
         ELSE /\ pc' = "engine"
              /\ hist' = [hist EXCEPT !.ucRun = 0]
    /\ UNCHANGED <<chanUp, handedOff, active, should_end, iter, no_speech_count,
                   turn_count, functions_called, rec, download, transcribed, text,
                   confidence, tool_calls, tc_fn, fn, resp, call_log, said, heard>>
    /\ UNCHANGED <<playing, serviceVars>>

\* variant: the farewell is followed by "continue" instead of "break"
GoodbyeContinues ==
    /\ pc = "goodbye"
    /\ \E ok \in BOOLEAN : Speak("farewell", ok, [hist EXCEPT !.exit = "goodbye"])
    /\ pc' = "loop"
    /\ UNCHANGED handedOff
    /\ UNCHANGED callVars
    /\ UNCHANGED serviceVars

\* "await call.speak("Anytime! Bye!"); break"
Goodbye ==
    /\ pc = "goodbye"
    /\ \E ok \in BOOLEAN : Speak("farewell", ok, [hist EXCEPT !.exit = "goodbye"])
    /\ pc' = "final"
    /\ UNCHANGED handedOff
    /\ UNCHANGED callVars
    /\ UNCHANGED serviceVars


\* ---------------------------------------------------------------------
\* Call.get_ai_response and Call.execute_function
\* ---------------------------------------------------------------------

\* non-empty lists of tool calls one model reply may carry
ToolCallLists ==
    UNION { [1 .. n -> Tools] : n \in 1 .. MaxReplyTools }

\* variant: the last tool call of the reply is the one executed
ToolToExecuteLast(tcs) == tcs[Len(tcs)]

\* get_ai_response: "tc = msg.tool_calls[0]"; the other entries are not read
ToolToExecute(tcs) == tcs[1]

\* "call.conversation.append(user)" and the first model call, offered the tools
AIFirstCall ==
    /\ pc = "engine"
    /\ hist' = [hist EXCEPT !.engineCalls = @ + 1]
    /\ \/ /\ tool_calls' = << >>                 \* the call raises: fallback utterance
          /\ tc_fn' = NoFn
          /\ resp' = "fallback"
          /\ fn' = NoFn
          /\ pc' = "save_turn"
       \/ /\ \E r \in {"reply", ""} : resp' = r   \* plain message, msg.content.strip()
          /\ tool_calls' = << >>
          /\ tc_fn' = NoFn
          /\ fn' = NoFn
          /\ pc' = "save_turn"
       \/ /\ Len(functions_called) < MaxToolCalls
          /\ \E tcs \in ToolCallLists :          \* "if msg.tool_calls:"
                /\ tool_calls' = tcs
                /\ tc_fn' = ToolToExecute(tcs)
          /\ resp' = ""
          /\ fn' = NoFn
          /\ pc' = "execute_function"
    /\ UNCHANGED <<chanUp, handedOff, active, should_end, iter, no_speech_count,
                   unclear_count, turn_count, functions_called, rec, download, transcribed,
                   text, confidence, call_log, said, heard>>
    /\ UNCHANGED <<playing, serviceVars>>

\* variant: end_call is recorded but the termination flag is left alone
ExecEndCallLeavesFlag ==
    /\ pc = "execute_function"
    /\ tc_fn = "end_call"
    /\ functions_called' = Append(functions_called, [name |-> tc_fn, success |-> FALSE])
    /\ pc' = "followup"
    /\ UNCHANGED <<chanUp, handedOff, active, should_end, iter, no_speech_count, unclear_count,
                   turn_count, rec, download, transcribed, text, confidence, tool_calls, tc_fn, fn, resp,
                   call_log, said, heard, hist>>
    /\ UNCHANGED <<playing, serviceVars>>

\* execute_function("end_call"): "self.should_end = True"
ExecEndCall ==
    /\ pc = "execute_function"
    /\ tc_fn = "end_call"
    /\ should_end' = TRUE
    /\ functions_called' = Append(functions_called, [name |-> tc_fn, success |-> FALSE])
    /\ pc' = "followup"
    /\ UNCHANGED <<chanUp, handedOff, active, iter, no_speech_count, unclear_count,
                   turn_count, rec, download, transcribed, text, confidence, tool_calls, tc_fn, fn, resp,
                   call_log, said, heard, hist>>
    /\ UNCHANGED <<playing, serviceVars>>

\* execute_function("create_ticket") / ("schedule_callback"); the commit of
\* the ticket list may raise, which get_ai_response turns into the fallback
ExecRecordAction ==
    /\ pc = "execute_function"
    /\ tc_fn \in {"create_ticket", "schedule_callback"}
    /\ \/ /\ functions_called' = Append(functions_called, [name |-> tc_fn, success |-> FALSE])
          /\ pc' = "followup"
          /\ UNCHANGED <<resp, fn, tool_calls>>
       \/ /\ tc_fn = "create_ticket"
          /\ resp' = "fallback"
          /\ fn' = NoFn
          /\ tool_calls' = << >>               \* msg is dead once get_ai_response returned
          /\ pc' = "save_turn"
          /\ UNCHANGED functions_called
    /\ UNCHANGED <<chanUp, handedOff, active, should_end, iter, no_speech_count,
                   unclear_count, turn_count, rec, download, transcribed, text, confidence,
                   tc_fn, call_log, said, heard, hist>>
    /\ UNCHANGED <<playing, serviceVars>>

\* execute_function("transfer_to_agent"), up to the dialplan continuation:
\* unknown department fails at once; otherwise the "Connecting you" line is
\* spoken and transferred_to is written to the call log
ExecTransfer ==
    /\ pc = "execute_function"
    /\ tc_fn = "transfer_to_agent"
    /\ \/ /\ functions_called' = Append(functions_called, [name |-> tc_fn, success |-> FALSE])
          /\ pc' = "followup"
          /\ UNCHANGED <<active, chanUp, playing, said, heard, hist, call_log>>
       \/ /\ \E ok \in BOOLEAN : Speak("connecting", ok, hist)
          /\ call_log' = [call_log EXCEPT !.transferred_to = TRUE]
          /\ pc' = "continue_dialplan"
          /\ UNCHANGED functions_called
    /\ UNCHANGED <<handedOff, should_end, iter, no_speech_count, unclear_count,
                   turn_count, rec, download, transcribed, text, confidence, tool_calls, tc_fn, fn, resp>>
    /\ UNCHANGED serviceVars

\* "await self.channel.continueInDialplan(...)" and the result of the tool
ContinueInDialplan ==
    /\ pc = "continue_dialplan"
    /\ hist' = Issue(hist, "continue")
    /\ handedOff' = ~CommandRaises
    /\ playing' = (playing /\ CommandRaises)
    /\ functions_called' = Append(functions_called,
                                  [name |-> tc_fn, success |-> ~CommandRaises])
    /\ pc' = "followup"
    /\ UNCHANGED <<chanUp, active, should_end, iter, no_speech_count, unclear_count,
                   turn_count, rec, download, transcribed, text, confidence, tool_calls, tc_fn, fn, resp,
                   call_log, said, heard>>
    /\ UNCHANGED serviceVars

\* result pair of get_ai_response once the follow-up call has answered
FollowUpResult(tool, result) ==
    IF tool = "transfer_to_agent" /\ result.success
      THEN [resp |-> "", fn |-> tool]
      ELSE [resp |-> "reply", fn |-> tool]

\* the second model call (no tools offered); if it raises, the except clause
\* of get_ai_response returns the fallback utterance and no tool name
AIFollowUp ==
    /\ pc = "followup"
    /\ \/ LET r == FollowUpResult(tc_fn, functions_called[Len(functions_called)])
          IN  resp' = r.resp /\ fn' = r.fn
       \/ resp' = "fallback" /\ fn' = NoFn
    /\ tool_calls' = << >>                     \* msg is dead once get_ai_response returned
    /\ pc' = "save_turn"
    /\ UNCHANGED <<chanUp, handedOff, active, should_end, iter, no_speech_count,
                   unclear_count, turn_count, functions_called, rec, download, transcribed,
                   text, confidence, tc_fn, call_log, said, heard, hist>>
    /\ UNCHANGED <<playing, serviceVars>>

\* ---------------------------------------------------------------------
\* handle_call, rest of the turn
\* ---------------------------------------------------------------------

\* handle_call: the transfer test after the turn was saved
TransferSucceeded ==
    /\ fn = "transfer_to_agent"
    /\ functions_called # << >>
    /\ functions_called[Len(functions_called)].success

\* turn saved, response appended, "Handle transfer" and "Check end"
SaveTurn ==
    /\ pc = "save_turn"
    /\ turn_count' = turn_count + 1
    /\ IF TransferSucceeded
         THEN /\ pc' = "cleanup"
              /\ hist' = [hist EXCEPT !.exit = "transfer"]
              /\ LocalsReleased
              /\ UNCHANGED should_end
         ELSE /\ pc' = "speak_response"
              /\ should_end' = (should_end \/ fn = "end_call")
              /\ hist' = IterationOver(hist)
              \* the turn is stored: of the locals only resp is read again
              /\ rec' = FALSE /\ download' = NoAnswer
              /\ transcribed' = FALSE /\ text' = NoText /\ confidence' = "low"
              /\ tool_calls' = << >> /\ tc_fn' = NoFn
              /\ UNCHANGED <<fn, resp>>
    /\ UNCHANGED <<chanUp, handedOff, active, iter, no_speech_count, unclear_count,
                   functions_called, call_log, said, heard>>
    /\ UNCHANGED <<playing, serviceVars>>

\* "if resp and not await call.speak(resp): break" and "if call.should_end: break"
SpeakResponse ==
    /\ pc = "speak_response"
    /\ \/ /\ resp # ""
          /\ \E ok \in BOOLEAN :
                /\ Speak("response", ok,
                         IF ~ok THEN [hist EXCEPT !.exit = "speak_failed"]
                         ELSE IF should_end THEN [hist EXCEPT !.exit = "should_end"]
                         ELSE hist)
                /\ pc' = IF ~ok \/ should_end THEN "final" ELSE "beep_next"
       \/ /\ resp = ""
          /\ pc' = IF should_end THEN "final" ELSE "beep_next"
          /\ hist' = IF should_end THEN [hist EXCEPT !.exit = "should_end"] ELSE hist
          /\ UNCHANGED <<active, chanUp, playing, said, heard>>
    /\ UNCHANGED handedOff
    /\ UNCHANGED callVars
    /\ UNCHANGED serviceVars

\* "Beep for next turn"
BeepNext == pc = "beep_next" /\ Beep("loop")

\* ---------------------------------------------------------------------
\* handle_call, ending and teardown
\* ---------------------------------------------------------------------

\* variant: the test before the sign-off is inverted
SignOffWhenEnding == should_end

\* "if not call.should_end:" before the final sign-off
SignOffNeeded == ~should_end

\* "Final goodbye"
FinalGoodbye ==
    /\ pc = "final"
    /\ IF SignOffNeeded
         THEN \E ok \in BOOLEAN : Speak("thanks", ok, hist)
         ELSE UNCHANGED <<active, chanUp, playing, said, heard, hist>>
    /\ pc' = "hangup"
    /\ LocalsReleased
    /\ UNCHANGED handedOff
    /\ UNCHANGED callFields
    /\ UNCHANGED serviceVars

\* Call.hangup(): the command is sent only while the session is active, its
\* errors are swallowed, and the session is inactive afterwards
HangupCall(h) ==
    /\ active' = FALSE
    /\ playing' = (playing /\ ~active)
    /\ IF active
         THEN /\ hist' = [Issue(h, "hangup") EXCEPT !.hangupCalls = @ + 1,
                                                    !.hangupIssued = TRUE]
              /\ chanUp' = IF handedOff THEN chanUp ELSE FALSE
         ELSE /\ hist' = [h EXCEPT !.hangupCalls = @ + 1]
              /\ chanUp' = chanUp

\* "await call.hangup()" at the end of the try block
Hangup ==
    /\ pc = "hangup"
    /\ HangupCall(hist)
    /\ pc' = "cleanup"
    /\ UNCHANGED <<handedOff, said, heard>>
    /\ UNCHANGED callVars
    /\ UNCHANGED serviceVars

\* variant: the except clause only logs
ExceptHandlerNoHangup ==
    /\ pc = "except"
    /\ hist' = [hist EXCEPT !.raised = TRUE, !.exit = "exception"]
    /\ pc' = "cleanup"
    /\ LocalsReleased
    /\ UNCHANGED <<chanUp, handedOff, active, said, heard>>
    /\ UNCHANGED callFields
    /\ UNCHANGED <<playing, serviceVars>>

\* "except Exception as e: ... await call.hangup()"
ExceptHandler ==
    /\ pc = "except"
    /\ HangupCall([hist EXCEPT !.raised = TRUE, !.exit = "exception"])
    /\ pc' = "cleanup"
    /\ LocalsReleased
    /\ UNCHANGED <<handedOff, said, heard>>
    /\ UNCHANGED callFields
    /\ UNCHANGED serviceVars

\* variant: cleanup runs again on a session that has already terminated
CleanupRepeats ==
    /\ pc \in {"cleanup", "done"}
    /\ \E t \in ClockValues :
          call_log' = [call_log EXCEPT
                          !.state = "finalized",
                          !.call_end = t,
                          !.call_duration = TimedeltaSeconds(call_log.call_start, t),
                          !.turns_count = turn_count,
                          !.no_speech_count = no_speech_count,
                          !.unclear_count = unclear_count]
    /\ pc' = "done"
    /\ UNCHANGED <<chanUp, handedOff, active, should_end, iter, no_speech_count,
                   unclear_count, turn_count, functions_called, rec, download, transcribed,
                   text, confidence, tool_calls, tc_fn, fn, resp, said, heard, hist>>
    /\ UNCHANGED <<playing, serviceVars>>

\* "finally: await call.cleanup()": Call.cleanup finalizes the call log
Cleanup ==
    /\ pc = "cleanup"
    /\ \E t \in ClockValues :
          call_log' = [call_log EXCEPT
                          !.state = "finalized",
                          !.call_end = t,
                          !.call_duration = TimedeltaSeconds(call_log.call_start, t),
                          !.turns_count = turn_count,
                          !.no_speech_count = no_speech_count,
                          !.unclear_count = unclear_count]
    /\ pc' = "done"
    /\ UNCHANGED <<chanUp, handedOff, active, should_end, iter, no_speech_count,
                   unclear_count, turn_count, functions_called, rec, download, transcribed,
                   text, confidence, tool_calls, tc_fn, fn, resp, said, heard, hist>>
    /\ UNCHANGED <<playing, serviceVars>>

\* ---------------------------------------------------------------------
\* Specification
\* ---------------------------------------------------------------------

Next ==
    \/ ChannelDies
    \/ FetchCustomerData
    \/ CreateCall
    \/ SetCallerInfo
    \/ Answer
    \/ Greeting
    \/ BeepGreeting
    \/ LoopTop
    \/ Record
    \/ BeepAck
    \/ NoInput
    \/ BeepNoInput
    \/ Transcribe
    \/ Unclear
    \/ BeepUnclear
    \/ ClearText
    \/ Goodbye
    \/ AIFirstCall
    \/ ExecEndCall
    \/ ExecRecordAction
    \/ ExecTransfer
    \/ ContinueInDialplan
    \/ AIFollowUp
    \/ SaveTurn
    \/ SpeakResponse
    \/ BeepNext
    \/ FinalGoodbye
    \/ Hangup
    \/ ExceptHandler
    \/ Cleanup

Spec == Init /\ [][Next]_vars

TypeOK ==
    /\ iter \in 0 .. max_turns + 1
    /\ no_speech_count \in 0 .. 2
    /\ unclear_count \in 0 .. 2
    /\ turn_count \in 0 .. max_turns
    /\ text \in Texts
    /\ call_log.state \in {"none", "open", "finalized"}


\* ---------------------------------------------------------------------
\* SoundCache.get and the uploader, for the concurrent sessions of the
\* service; every await inside get is a point where another session runs
\* ---------------------------------------------------------------------

\* the call session, the download and the transcription are not running in
\* this specification
CacheOnly == UNCHANGED <<sessionVars, downloadVars, transcribeVars, engineVars, ledgerVars, lifecycleVars>>

\* the asyncio.Lock a session's upload goes through: StandaloneSSH._lock of
\* the one object passed to every handle_call, or SSHSoundUploader._lock of
\* the uploader built in the session's own SoundCache.__init__
LockOf(s) == IF impl = "handler" THEN s ELSE SharedSSH

\* the call log of get kept for observation: the previous call and the
\* current one
Remember(calls, e) ==
    IF calls = << >> THEN <<e>> ELSE <<calls[Len(calls)], e>>

\* get returns ref: the current call is closed with its result
Returned(calls, ref) ==
    [calls EXCEPT ![Len(calls)] = [@ EXCEPT !.ret = ref]]

\* the current call invoked the synthesis engine
Synthesized(calls) ==
    [calls EXCEPT ![Len(calls)] = [@ EXCEPT !.synth = 1]]

\* variant: the index is never consulted
CacheNeverHits(idx, k) == FALSE

\* get: "if k in self.index and self.index[k].get('remote')"
CacheHit(idx, k) == k \in idx

\* result of upload, TRUE for a reference and FALSE for None: the reference
\* is returned when the transfer succeeded; ai_agent_handler also requires
\* each of mv, chown, chmod to answer, ai_agent_integrated ignores them
UploadReturns(m, outcome) ==
    \/ outcome = "ok"
    \/ outcome = "mv_failed" /\ m = "integrated"

\* variant: the entry is written whether or not upload returned a reference
IndexedAlways(idx, k, remote) == idx \cup {k}

\* get: "if remote: self.index[k] = {...}"
IndexedAfterUpload(idx, k, remote) == IF remote THEN idx \cup {k} ELSE idx

\* get: "return (remote or local), duration"
GetReturns(remote) == IF remote THEN "remote" ELSE "local"

\* outcomes of one upload: all done; file transferred but not moved into
\* the sound directory; transfer failed; no connection
UploadOutcomes == {"ok", "mv_failed", "put_failed", "connect_failed"}

\* "cache = SoundCache()" at the start of a call: the index is read from
\* the index file
NewCache(s) ==
    /\ get_pc[s] \in {"none", "idle"}
    /\ index' = [index EXCEPT ![s] = index_file]
    /\ get_pc' = [get_pc EXCEPT ![s] = "idle"]
    /\ gets' = [gets EXCEPT ![s] = << >>]
    /\ UNCHANGED <<impl, index_file, cache_dir, sounds_dir, lock, get_key>>
    /\ CacheOnly

\* get(text) up to its first await: index lookup, then _tts up to the
\* synthesis ("if f.exists(): return str(f)")
GetCall(s, k) ==
    /\ get_pc[s] = "idle"
    /\ LET e == [key |-> k, ret |-> "pending", synth |-> 0]
       IN  IF CacheHit(index[s], k)
             THEN /\ gets' = [gets EXCEPT ![s] = Returned(Remember(@, e), "remote")]
                  /\ UNCHANGED <<get_pc, get_key>>
             ELSE /\ gets' = [gets EXCEPT ![s] = Remember(@, e)]
                  /\ get_key' = [get_key EXCEPT ![s] = k]
                  /\ get_pc' = [get_pc EXCEPT ![s] =
                                   IF k \in cache_dir THEN "upload" ELSE "tts"]
    /\ UNCHANGED <<impl, index, index_file, cache_dir, sounds_dir, lock>>
    /\ CacheOnly

\* _tts: synthesis (gTTS, then pyttsx3 if it raised), normalisation and
\* export; any exception makes _tts return None and get return (None, None)
TtsDone(s) ==
    /\ get_pc[s] = "tts"
    /\ \E ok \in BOOLEAN :
          IF ok
            THEN /\ cache_dir' = cache_dir \cup {get_key[s]}
                 /\ get_pc' = [get_pc EXCEPT ![s] = "upload"]
                 /\ gets' = [gets EXCEPT ![s] = Synthesized(@)]
                 /\ UNCHANGED get_key
            ELSE /\ get_pc' = [get_pc EXCEPT ![s] = "idle"]
                 /\ get_key' = [get_key EXCEPT ![s] = NoKey]
                 /\ gets' = [gets EXCEPT ![s] = Returned(Synthesized(@), "null")]
                 /\ UNCHANGED cache_dir
    /\ UNCHANGED <<impl, index, index_file, sounds_dir, lock>>
    /\ CacheOnly

\* upload: "async with self._lock"
AcquireLock(s) ==
    /\ get_pc[s] = "upload"
    /\ lock[LockOf(s)] = "free"
    /\ lock' = [lock EXCEPT ![LockOf(s)] = s]
    /\ get_pc' = [get_pc EXCEPT ![s] = "uploading"]
    /\ UNCHANGED <<impl, index, index_file, cache_dir, sounds_dir, get_key, gets>>
    /\ CacheOnly

\* upload returns and get runs to its end: the lock is released, the entry
\* is written and saved if a reference came back (_save swallows its errors)
UploadDone(s) ==
    /\ get_pc[s] = "uploading"
    /\ \E outcome \in UploadOutcomes, saved \in BOOLEAN :
          LET k == get_key[s]
              remote == UploadReturns(impl, outcome)
              idx == IndexedAfterUpload(index[s], k, remote)
          IN  /\ sounds_dir' = IF outcome = "ok" THEN sounds_dir \cup {k} ELSE sounds_dir
              /\ index' = [index EXCEPT ![s] = idx]
              /\ index_file' = IF idx # index[s] /\ saved THEN idx ELSE index_file
              /\ gets' = [gets EXCEPT ![s] = Returned(@, GetReturns(remote))]
    /\ lock' = [lock EXCEPT ![LockOf(s)] = "free"]
    /\ get_pc' = [get_pc EXCEPT ![s] = "idle"]
    /\ get_key' = [get_key EXCEPT ![s] = NoKey]
    /\ UNCHANGED <<impl, cache_dir>>
    /\ CacheOnly

InitCache ==
    /\ SessionIdle
    /\ CacheEmpty
    /\ impl \in {"integrated", "handler"}
    /\ DownloadIdle
    /\ TranscribeIdle
    /\ audio_file = NoFile
    /\ EngineIdle
    /\ LedgerIdle
    /\ LifecycleIdle

NextCache ==
    \/ \E s \in Sess : NewCache(s)
    \/ \E s \in Sess, k \in Keys : GetCall(s, k)
    \/ \E s \in Sess : TtsDone(s)
    \/ \E s \in Sess : AcquireLock(s)
    \/ \E s \in Sess : UploadDone(s)

SpecCache == InitCache /\ [][NextCache]_vars

\* ---------------------------------------------------------------------
\* Call._download: the retry loop that fetches a stored recording, in
\* ai_agent_handler.py and in ai_agent_integrated.py (agent.py has the
\* loop of ai_agent_integrated.py)
\* ---------------------------------------------------------------------

DownloadOnly == UNCHANGED <<sessionVars, cacheVars, transcribeVars, engineVars, ledgerVars, lifecycleVars>>

\* "for attempt in range(5)" in ai_agent_handler.py, "for _ in range(3)" in
\* ai_agent_integrated.py
Attempts(m) == IF m = "handler" THEN 5 ELSE 3

\* sleep after a refused answer, in milliseconds. ai_agent_handler.py:
\* 0.5 + attempt * 0.2 s after status 404, 0.3 s after any other answer or
\* an exception; ai_agent_integrated.py: always 0.15 s
WaitAfter(m, n, a) ==
    IF m = "handler"
      THEN IF a.status = 404 THEN 500 + n * 200 ELSE 300
      ELSE 150

\* _download is called by record
DownloadCall ==
    /\ dl_pc = "idle"
    /\ dl_pc' = "request"
    /\ UNCHANGED <<attempt, dl_log, dl_result>>
    /\ DownloadOnly

\* one pass of the loop body: the request, and either the return of the
\* file or the sleep before the next pass
Request ==
    /\ dl_pc = "request"
    /\ \E a \in Answers \cup {NoAnswer} :
          IF a # NoAnswer /\ DownloadAccepts(a.status, a.bytes)
            THEN /\ dl_log' = Append(dl_log, [answer |-> a, wait |-> 0])
                 /\ dl_result' = "path"
                 /\ dl_pc' = "returned"
            ELSE /\ dl_log' = Append(dl_log, [answer |-> a, wait |-> WaitAfter(impl, attempt, a)])
                 /\ dl_pc' = "sleep"
                 /\ UNCHANGED dl_result
    /\ UNCHANGED attempt
    /\ DownloadOnly

\* the sleep is over: next pass of the loop, or "return None" after the last
Wake ==
    /\ dl_pc = "sleep"
    /\ attempt' = attempt + 1
    /\ IF attempt + 1 < Attempts(impl)
         THEN dl_pc' = "request" /\ UNCHANGED dl_result
         ELSE dl_pc' = "returned" /\ dl_result' = "null"
    /\ UNCHANGED dl_log
    /\ DownloadOnly

InitDownload ==
    /\ SessionIdle
    /\ CacheEmpty
    /\ impl \in {"integrated", "handler"}
    /\ DownloadIdle
    /\ TranscribeIdle
    /\ audio_file = NoFile
    /\ EngineIdle
    /\ LedgerIdle
    /\ LifecycleIdle

NextDownload ==
    \/ DownloadCall
    \/ Request
    \/ Wake

SpecDownload == InitDownload /\ [][NextDownload]_vars

\* ---------------------------------------------------------------------
\* Call.transcribe: size check, pre-processing, recognition, clean-up
\* ---------------------------------------------------------------------

TranscribeOnly == UNCHANGED <<sessionVars, cacheVars, downloadVars, engineVars, ledgerVars, lifecycleVars>>

\* sizes of the audio file handed to transcribe
FileSizes == {NoFile, 0, 3999, 4000, 4001, 64000}

\* result.text of the recognizer: strings over a blank and a letter
RawTexts == UNION { [1 .. n -> {" ", "a"}] : n \in 0 .. 2 }

\* str.strip(): leading and trailing blanks removed
RECURSIVE StripLeft(_)
StripLeft(t) ==
    IF t # << >> /\ Head(t) = " " THEN StripLeft(Tail(t)) ELSE t

RECURSIVE StripRight(_)
StripRight(t) ==
    IF t # << >> /\ t[Len(t)] = " " THEN StripRight(SubSeq(t, 1, Len(t) - 1)) ELSE t

\* variant: the text is returned as the engine gave it
StripNothing(t) == t

Strip(t) == StripRight(StripLeft(t))

\* what recognize_once can do: return a result with one of the reasons, or
\* raise
EngineOutcomes ==
    [reason : {"RecognizedSpeech"}, text : RawTexts]
        \cup [reason : {"NoMatch", "Canceled", "raises"}, text : {<< >>}]

\* the pair returned for a result of the recognizer. ai_agent_integrated.py:
\* text is the stripped result.text if speech was recognized, else "", and
\* confidence is "high" if text else "low"; ai_agent_handler.py sets "high"
\* for every RecognizedSpeech result
ResultPair(m, o) ==
    LET t == IF o.reason = "RecognizedSpeech" THEN Strip(o.text) ELSE << >>
    IN  [text |-> t,
         confidence |-> IF m = "handler"
                          THEN IF o.reason = "RecognizedSpeech" THEN "high" ELSE "low"
                          ELSE IF t # << >> THEN "high" ELSE "low"]

\* ("", "low")
EmptyLow == [text |-> << >>, confidence |-> "low"]

\* variant: only files below 2000 bytes are rejected
TooSmallBelowHalf(size) == size < 2000

\* transcribe: "if os.path.getsize(audio_file) < 4000"
TooSmall(size) == size < 4000

\* transcribe up to its first await: getsize (which raises if there is no
\* file) and the size test
TranscribeCall ==
    /\ tr_pc = "idle"
    /\ IF audio_file = NoFile \/ TooSmall(audio_file)
         THEN /\ tr_result' = EmptyLow
              /\ tr_pc' = "returned"
         ELSE /\ tr_pc' = "preprocess"
              /\ UNCHANGED tr_result
    /\ UNCHANGED <<audio_file, processed, proc_file, preprocessed, recognitions, engine_result>>
    /\ TranscribeOnly

\* _preprocess_audio: returns the new file, or the original one if loading
\* or exporting raised (an export that raised may have left a partial file)
Preprocess ==
    /\ tr_pc = "preprocess"
    /\ preprocessed' = TRUE
    /\ \/ processed' = "proc" /\ proc_file' = TRUE
       \/ processed' = "original" /\ proc_file' \in BOOLEAN
    /\ tr_pc' = "recognize"
    /\ UNCHANGED <<audio_file, recognitions, engine_result, tr_result>>
    /\ TranscribeOnly

\* recognizer built and recognize_once run; the result mapped, the
\* intermediate file unlinked (errors swallowed); an exception anywhere
\* goes to the except clause, which returns ("", "low")
Recognize ==
    /\ tr_pc = "recognize"
    /\ \/ /\ tr_result' = EmptyLow               \* AudioConfig / SpeechRecognizer raises
          /\ engine_result' = [reason |-> "raises", text |-> << >>]
          /\ UNCHANGED <<recognitions, proc_file>>
       \/ /\ recognitions' = recognitions + 1
          /\ \E o \in EngineOutcomes :
                /\ engine_result' = o
                /\ IF o.reason = "raises"
                     THEN /\ tr_result' = EmptyLow
                          /\ UNCHANGED proc_file
                     ELSE /\ tr_result' = ResultPair(impl, o)
                          /\ IF processed = "proc"
                               THEN proc_file' \in BOOLEAN   \* os.unlink, may fail
                               ELSE UNCHANGED proc_file
    /\ tr_pc' = "returned"
    /\ UNCHANGED <<audio_file, processed, preprocessed>>
    /\ TranscribeOnly

InitTranscribe ==
    /\ SessionIdle
    /\ CacheEmpty
    /\ impl \in {"integrated", "handler"}
    /\ DownloadIdle
    /\ TranscribeIdle
    /\ audio_file \in FileSizes
    /\ EngineIdle
    /\ LedgerIdle
    /\ LifecycleIdle

NextTranscribe ==
    \/ TranscribeCall
    \/ Preprocess
    \/ Recognize

SpecTranscribe == InitTranscribe /\ [][NextTranscribe]_vars

\* ---------------------------------------------------------------------
\* Call.get_ai_response over the turns of one session that reach the
\* engine, with the appends to Call.conversation that handle_call makes
\* around it (AIAssistant.respond and ConversationContext in agent.py)
\* ---------------------------------------------------------------------

EngineOnly == UNCHANGED <<sessionVars, cacheVars, downloadVars, transcribeVars, ledgerVars,
                          lifecycleVars>>

\* turns of the session that reach the engine
MaxEngineTurns == 3

\* the transient "Poor audio. Ask once for clarification, then offer
\* callback." system message
PoorAudio == "system_poor_audio"

\* the messages appended after execute_function: the assistant message that
\* carries the tool call, then the message with role "tool"
ToolMessages == <<"assistant_tool_calls", "tool">>

\* the tool messages are appended to the local copy "messages" only;
\* Call.conversation is left as it was
HistoryAfterTool(conv, msgs) == conv

\* "if confidence == 'low'" in ai_agent_integrated.py and
\* ai_agent_handler.py; "if confidence == 'low' and not
\* ctx.last_was_clarification" in agent.py
PoorAudioAdded(m, c, flag) == c = "low" /\ (m = "agent" => ~flag)

\* "call.conversation.append(user)", then get_ai_response up to the first
\* request: the copy of the history, with the instruction if it is added
GetAIResponse ==
    /\ ai_pc \in {"idle", "returned"}
    /\ ai_turn < MaxEngineTurns
    /\ \E c \in {"high", "low"} :
          /\ ai_confidence' = c
          /\ messages' = IF PoorAudioAdded(impl, c, last_was_clarification)
                           THEN Append(Append(conversation, "user"), PoorAudio)
                           ELSE Append(conversation, "user")
          /\ last_was_clarification' =
                 IF impl = "agent"
                   THEN PoorAudioAdded(impl, c, last_was_clarification)
                   ELSE last_was_clarification
    /\ conversation' = Append(conversation, "user")
    /\ ai_turn' = ai_turn + 1
    /\ ai_fn' = NoFn
    /\ ai_pc' = "first_call"
    /\ UNCHANGED requests
    /\ EngineOnly

\* the request as the model receives it
Completion(offered) ==
    [turn |-> ai_turn, confidence |-> ai_confidence, messages |-> messages,
     tools |-> offered]

\* the first completion, offered the tools: a reply, a tool call, or an
\* exception (the fallback utterance is returned); handle_call appends the
\* returned text to the history
FirstCompletion ==
    /\ ai_pc = "first_call"
    /\ requests' = Append(requests, Completion(TRUE))
    /\ \/ /\ ai_pc' = "returned"                   \* msg.content, or the fallback
          /\ conversation' = Append(conversation, "assistant")
          /\ ai_fn' = ai_fn
       \/ /\ \E f \in Tools : ai_fn' = f             \* msg.tool_calls[0]
          /\ ai_pc' = "execute"
          /\ conversation' = conversation
    /\ UNCHANGED <<messages, ai_confidence, ai_turn, last_was_clarification>>
    /\ EngineOnly

\* execute_function and the two messages that follow it; json.loads or the
\* tool may raise, which returns the fallback utterance and no tool name
ExecuteFunction ==
    /\ ai_pc = "execute"
    /\ \/ /\ messages' = messages \o ToolMessages
          /\ conversation' = HistoryAfterTool(conversation, ToolMessages)
          /\ ai_pc' = "second_call"
          /\ ai_fn' = ai_fn
       \/ /\ conversation' = Append(conversation, "assistant")
          /\ ai_pc' = "returned"
          /\ ai_fn' = NoFn
          /\ messages' = messages
    /\ UNCHANGED <<requests, ai_confidence, ai_turn, last_was_clarification>>
    /\ EngineOnly

\* the second completion, without tools; if it raises the fallback
\* utterance is returned with no tool name
SecondCompletion ==
    /\ ai_pc = "second_call"
    /\ requests' = Append(requests, Completion(FALSE))
    /\ conversation' = Append(conversation, "assistant")
    /\ ai_pc' = "returned"
    /\ \/ ai_fn' = ai_fn
       \/ ai_fn' = NoFn
    /\ UNCHANGED <<messages, ai_confidence, ai_turn, last_was_clarification>>
    /\ EngineOnly

InitEngine ==
    /\ SessionIdle
    /\ CacheEmpty
    /\ impl \in {"integrated", "handler", "agent"}
    /\ DownloadIdle
    /\ TranscribeIdle
    /\ audio_file = NoFile
    /\ EngineIdle
    /\ LedgerIdle
    /\ LifecycleIdle

NextEngine ==
    \/ GetAIResponse
    \/ FirstCompletion
    \/ ExecuteFunction
    \/ SecondCompletion

SpecEngine == InitEngine /\ [][NextEngine]_vars

\* ---------------------------------------------------------------------
\* handle_call, the bookkeeping of the turn loop: counters, conversation
\* and turn rows of one call from the greeting to the finalized call log.
\* The channel is not followed here: a command may find it gone at any
\* time
\* ---------------------------------------------------------------------

\* what this specification leaves alone
TurnsOnly ==
    UNCHANGED <<chanUp, playing, handedOff, download, tool_calls, tc_fn, said, heard, hist,
                cacheVars, downloadVars, transcribeVars, ai_pc, ai_turn, ai_confidence,
                ai_fn, messages, last_was_clarification, requests, lifecycleVars>>

\* the locals a turn assigns before the engine is called
turnLocals == <<rec, transcribed, text, confidence, fn, resp>>

\* "for turn_num in range(config.max_turns): if not call.active or
\* call.should_end: break"; the observation notes what the turn started with
TurnLoopTop ==
    /\ pc = "loop"
    /\ IF ~LoopHasNext
         THEN pc' = "final" /\ iter' = iter
         ELSE IF ~active \/ should_end
                THEN pc' = "final" /\ iter' = iter + 1
                ELSE pc' = "record" /\ iter' = iter + 1
    /\ IF pc' = "record"
         THEN /\ rec' = FALSE /\ transcribed' = FALSE /\ text' = NoText
              /\ confidence' = "low" /\ fn' = NoFn /\ resp' = ""
              /\ ledger' = [ledger EXCEPT !.kind = "none",
                                          !.convBefore = conversation,
                                          !.turnsBefore = turn_count,
                                          !.rowsBefore = turn_rows]
         ELSE UNCHANGED <<turnLocals, ledger>>
    /\ UNCHANGED <<active, should_end, no_speech_count, unclear_count, turn_count,
                   functions_called, call_log, conversation, turn_rows>>
    /\ TurnsOnly

\* "rec = await call.record()" and the acknowledging cue: record returns a
\* file or None; when the channel is gone the liveness check of record
\* clears call.active and the cue raises
TurnRecord ==
    /\ pc = "record"
    /\ \E got \in BOOLEAN, gone \in BOOLEAN, raises \in BOOLEAN :
          /\ got => ~gone
          /\ gone => raises
          /\ rec' = got
          /\ active' = (active /\ ~gone)
          /\ pc' = IF raises THEN "except" ELSE "after_ack"
    /\ UNCHANGED <<should_end, iter, no_speech_count, unclear_count, turn_count,
                   functions_called, transcribed, text, confidence, fn, resp, call_log,
                   conversation, turn_rows, ledger>>
    /\ TurnsOnly

\* "if not rec:" branch: the counter, then the apology and break, or the
\* retry prompt, the cue and continue
TurnNoInput ==
    /\ pc = "after_ack"
    /\ ~rec
    /\ no_speech_count' = no_speech_count + 1
    /\ ledger' = [ledger EXCEPT !.kind = "noinput", !.noInputTurns = @ + 1]
    /\ \E gone \in BOOLEAN, raises \in BOOLEAN :
          /\ gone => raises
          /\ active' = (active /\ ~gone)
          /\ pc' = IF NoSpeechLimitReached(no_speech_count + 1) THEN "final"
                   ELSE IF raises THEN "except" ELSE "loop"
    /\ UNCHANGED <<should_end, iter, unclear_count, turn_count, functions_called,
                   turnLocals, call_log, conversation, turn_rows>>
    /\ TurnsOnly

\* "text, confidence = await call.transcribe(rec); call.no_speech_count = 0"
TurnTranscribe ==
    /\ pc = "after_ack"
    /\ rec
    /\ \E t \in Texts :
          /\ text' = t
          /\ confidence' = ConfidenceFor(t)
    /\ transcribed' = TRUE
    /\ no_speech_count' = 0
    /\ pc' = "check_text"
    /\ UNCHANGED <<active, should_end, iter, unclear_count, turn_count, functions_called,
                   rec, fn, resp, call_log, conversation, turn_rows, ledger>>
    /\ TurnsOnly

\* "if not text or len(text) < 3:" branch
TurnUnclear ==
    /\ pc = "check_text"
    /\ IsUnclear(text)
    /\ unclear_count' = unclear_count + 1
    /\ ledger' = [ledger EXCEPT !.kind = "unclear", !.unclearTurns = @ + 1]
    /\ \E gone \in BOOLEAN, raises \in BOOLEAN :
          /\ gone => raises
          /\ active' = (active /\ ~gone)
          /\ pc' = IF UnclearLimitReached(unclear_count + 1) THEN "final"
                   ELSE IF raises THEN "except" ELSE "loop"
    /\ UNCHANGED <<should_end, iter, no_speech_count, turn_count, functions_called,
                   turnLocals, call_log, conversation, turn_rows>>
    /\ TurnsOnly

\* variant: the caller's text is appended before the goodbye check
TurnClearTextAppends ==
    /\ pc = "check_text"
    /\ ~IsUnclear(text)
    /\ unclear_count' = 0
    /\ conversation' = Append(conversation, "user")
    /\ IF IsGoodbye(text)
         THEN pc' = "final" /\ ledger' = [ledger EXCEPT !.kind = "goodbye"]
         ELSE pc' = "engine" /\ ledger' = ledger
    /\ UNCHANGED <<active, should_end, iter, no_speech_count, turn_count,
                   functions_called, turnLocals, call_log, turn_rows>>
    /\ TurnsOnly

\* "call.unclear_count = 0" and the goodbye check: farewell and break
TurnClearText ==
    /\ pc = "check_text"
    /\ ~IsUnclear(text)
    /\ unclear_count' = 0
    /\ IF IsGoodbye(text)
         THEN pc' = "final" /\ ledger' = [ledger EXCEPT !.kind = "goodbye"]
         ELSE pc' = "engine" /\ ledger' = ledger
    /\ UNCHANGED <<active, should_end, iter, no_speech_count, turn_count,
                   functions_called, turnLocals, call_log, conversation, turn_rows>>
    /\ TurnsOnly

\* "call.conversation.append({"role": "user", "content": text})"
UserAppended(conv) == Append(conv, "user")

\* the append of the caller's text and get_ai_response(confidence): a plain
\* reply, or one tool executed and then the follow-up reply; when a model
\* call raises the fallback utterance comes back with no tool name, after
\* end_call has already set should_end
TurnEngine ==
    /\ pc = "engine"
    /\ conversation' = UserAppended(conversation)
    /\ ledger' = [ledger EXCEPT !.kind = "engine", !.engineCalls = @ + 1]
    /\ \E tool \in Tools \cup {NoFn}, ok \in BOOLEAN, raised \in BOOLEAN, r \in {"reply", ""} :
          /\ tool # NoFn => Len(functions_called) < MaxToolCalls
          /\ tool # "transfer_to_agent" => ~ok
          /\ functions_called' =
                IF tool = NoFn THEN functions_called
                ELSE Append(functions_called, [name |-> tool, success |-> ok])
          /\ should_end' = (should_end \/ tool = "end_call")
          /\ fn' = IF raised THEN NoFn ELSE tool
          /\ resp' = IF raised THEN "fallback" ELSE r
    /\ pc' = "save_turn"
    /\ UNCHANGED <<active, iter, no_speech_count, unclear_count, turn_count, rec,
                   transcribed, text, confidence, call_log, turn_rows>>
    /\ TurnsOnly

\* "call.turn_count += 1; await call._save_turn(call.turn_count, ...)"
TurnNumber(n) == n + 1

\* Call._save_turn: the row is added and committed; if that raises, the
\* transaction is rolled back and the error only logged
SavedRows(rows, n, committed) == IF committed THEN Append(rows, n) ELSE rows

\* the turn is counted and saved, the response appended, then "Handle
\* transfer", "Check end", "Speak response" and the cue for the next turn
TurnSave ==
    /\ pc = "save_turn"
    /\ turn_count' = TurnNumber(turn_count)
    /\ \E committed \in BOOLEAN :
          turn_rows' = SavedRows(turn_rows, turn_count', committed)
    /\ conversation' = Append(conversation, "assistant")
    /\ IF TransferSucceeded
         THEN /\ pc' = "cleanup"
              /\ UNCHANGED <<should_end, active>>
         ELSE /\ should_end' = (should_end \/ fn = "end_call")
              /\ \E spoken \in BOOLEAN, gone \in BOOLEAN, raises \in BOOLEAN :
                    /\ gone => (raises /\ ~spoken)
                    /\ active' = (active /\ ~gone)
                    /\ pc' = IF resp # "" /\ ~spoken THEN "final"
                             ELSE IF should_end' THEN "final"
                             ELSE IF raises THEN "except" ELSE "loop"
    /\ UNCHANGED <<iter, no_speech_count, unclear_count, functions_called, turnLocals,
                   call_log, ledger>>
    /\ TurnsOnly

\* the sign-off and Call.hangup after the loop, or Call.hangup in the
\* except clause
TurnLeave ==
    /\ pc \in {"final", "except"}
    /\ active' = FALSE
    /\ pc' = "cleanup"
    /\ UNCHANGED <<should_end, iter, no_speech_count, unclear_count, turn_count,
                   functions_called, turnLocals, call_log, conversation, turn_rows, ledger>>
    /\ TurnsOnly

\* "finally: await call.cleanup()": the counters go to the call log
TurnCleanup ==
    /\ pc = "cleanup"
    /\ \E t \in ClockValues :
          call_log' = [call_log EXCEPT
                          !.state = "finalized",
                          !.call_end = t,
                          !.call_duration = TimedeltaSeconds(call_log.call_start, t),
                          !.turns_count = turn_count,
                          !.no_speech_count = no_speech_count,
                          !.unclear_count = unclear_count]
    /\ pc' = "done"
    /\ UNCHANGED <<active, should_end, iter, no_speech_count, unclear_count, turn_count,
                   functions_called, turnLocals, conversation, turn_rows, ledger>>
    /\ TurnsOnly

\* the greeting has been spoken and appended, the first cue played
InitTurns ==
    /\ pc = "loop"
    /\ playing = FALSE
    /\ chanUp = TRUE
    /\ handedOff = FALSE
    /\ active = TRUE
    /\ should_end = FALSE
    /\ iter = 0
    /\ no_speech_count = 0
    /\ unclear_count = 0
    /\ turn_count = 0
    /\ functions_called = << >>
    /\ rec = FALSE
    /\ download = NoAnswer
    /\ transcribed = FALSE
    /\ text = NoText
    /\ confidence = "low"
    /\ tool_calls = << >>
    /\ tc_fn = NoFn
    /\ fn = NoFn
    /\ resp = ""
    /\ call_log = [state |-> "open", call_start |-> 0, call_end |-> 0,
                   call_duration |-> 0, transferred_to |-> FALSE,
                   turns_count |-> 0, no_speech_count |-> 0, unclear_count |-> 0]
    /\ said = [l \in Lines |-> IF l = "greeting" THEN 1 ELSE 0]
    /\ heard = [l \in Lines |-> IF l = "greeting" THEN 1 ELSE 0]
    /\ hist = [ttsFailures |-> 0, afterHandoff |-> 0, playsAfterInactive |-> 0,
               livenessFailed |-> FALSE, records |-> 0, engineCalls |-> 0,
               exit |-> "none", raised |-> FALSE, escaped |-> FALSE,
               hangupCalls |-> 0, hangupIssued |-> FALSE,
               nullRun |-> 0, nullRunAt |-> 0,
               nsBefore |-> 0, ucBefore |-> 0,
               niRun |-> 0, ucRun |-> 0, byeAt |-> 0, byeRecords |-> 0, byeEngine |-> 0]
    /\ ServicesIdle

NextTurns ==
    \/ TurnLoopTop
    \/ TurnRecord
    \/ TurnNoInput
    \/ TurnTranscribe
    \/ TurnUnclear
    \/ TurnClearText
    \/ TurnEngine
    \/ TurnSave
    \/ TurnLeave
    \/ TurnCleanup

SpecTurns == InitTurns /\ [][NextTurns]_vars

\* ---------------------------------------------------------------------
\* AIAgentService: start and stop, called from the web application under
\* _status_lock, and the worker threads start creates. A worker runs
\* _run_service: it sets up its clients, registers on_stasis_start, and
\* stays in ari_client.run until the connection ends
\* ---------------------------------------------------------------------

\* what this specification leaves alone
LifecycleOnly ==
    UNCHANGED <<sessionVars, cacheVars, downloadVars, transcribeVars, engineVars, ledgerVars>>

\* the workers that are inside ari_client.run
Serving == {w \in WorkerIds : workers[w] = "serving"}

\* the worker the next threading.Thread(...) creates
NextWorker == CHOOSE w \in WorkerIds :
                  workers[w] = "unborn" /\ \A v \in WorkerIds : workers[v] = "unborn" => w <= v

\* "if self.thread and self.thread.is_alive(): self.thread.join(timeout=5)":
\* stop holds _status_lock while it waits, and nothing stop has done makes
\* ari_client.run return; the worker is where it was when the wait is over
AfterJoin(position) == position

\* AIAgentService.start: refused while running or starting; otherwise the
\* credentials and modules are checked, the configuration is copied, the
\* state becomes "starting", a new thread is started and running is set
ServiceStart ==
    /\ LifecycleOnly
    /\ IF running \/ service_state \in {"starting", "running"}
         THEN /\ lifecycle' = [lifecycle EXCEPT !.lastStart = "refused"]
              /\ UNCHANGED <<running, service_state, thread, workers, total_calls_handled>>
         ELSE \E outcome \in {"started", "missing", "raised"} :
                CASE outcome = "started" ->
                       /\ \E w \in WorkerIds : workers[w] = "unborn"
                       /\ service_state' = "starting"
                       /\ thread' = NextWorker
                       /\ workers' = [workers EXCEPT ![NextWorker] = "init"]
                       /\ running' = TRUE
                       /\ lifecycle' = [lifecycle EXCEPT !.lastStart = "ok",
                                                         !.stopReturned = FALSE]
                       /\ UNCHANGED total_calls_handled
                  [] outcome = "missing" ->
                       /\ lifecycle' = [lifecycle EXCEPT !.lastStart = "failed"]
                       /\ UNCHANGED <<running, service_state, thread, workers,
                                      total_calls_handled>>
                  [] outcome = "raised" ->
                       /\ running' = FALSE
                       /\ service_state' = "stopped"
                       /\ lifecycle' = [lifecycle EXCEPT !.lastStart = "failed"]
                       /\ UNCHANGED <<thread, workers, total_calls_handled>>

\* AIAgentService.stop: refused when not running or stopped; otherwise
\* "stopping", running False, the active calls are hung up, SSH is closed,
\* the thread is joined for at most five seconds, the state becomes
\* "stopped" and stop returns success. An exception on the way gives
\* "stopped" as well and a failure is returned
ServiceStop ==
    /\ LifecycleOnly
    /\ IF ~running \/ service_state = "stopped"
         THEN /\ lifecycle' = [lifecycle EXCEPT !.lastStop = "refused"]
              /\ UNCHANGED <<running, service_state, thread, workers, total_calls_handled>>
         ELSE \E raised \in BOOLEAN :
                /\ running' = FALSE
                /\ workers' = [w \in WorkerIds |->
                                  IF w = thread /\ ~raised THEN AfterJoin(workers[w])
                                                           ELSE workers[w]]
                /\ service_state' = "stopped"
                /\ lifecycle' = [lifecycle EXCEPT !.lastStop = IF raised THEN "failed" ELSE "ok",
                                                  !.stopReturned = ~raised]
                /\ UNCHANGED <<thread, total_calls_handled>>

\* _service_main gives up before the event loop: ARI_PASSWORD missing, the
\* Azure OpenAI test failed, or aioari.connect raised. Each path sets
\* running False and "stopped" under the lock
WorkerSetupFails(w) ==
    /\ workers[w] = "init"
    /\ workers' = [workers EXCEPT ![w] = "unwinding"]
    /\ running' = FALSE
    /\ service_state' = "stopped"
    /\ UNCHANGED <<thread, total_calls_handled, lifecycle>>
    /\ LifecycleOnly

\* _service_main: the handler is registered, "self._service_state =
\* 'running'" under the lock, then "await ari_client.run(apps=ari_app)"
WorkerReady(w) ==
    /\ workers[w] = "init"
    /\ workers' = [workers EXCEPT ![w] = "serving"]
    /\ service_state' = "running"
    /\ UNCHANGED <<running, thread, total_calls_handled, lifecycle>>
    /\ LifecycleOnly

\* on_stasis_start: a StasisStart event arrives at a worker that is in
\* ari_client.run; total_calls_handled is incremented and _handle_call runs
WorkerHandlesCall(w) ==
    /\ workers[w] = "serving"
    /\ total_calls_handled < MaxCalls
    /\ total_calls_handled' = total_calls_handled + 1
    /\ lifecycle' = [lifecycle EXCEPT !.handledAfterStop =
                        IF lifecycle.stopReturned THEN @ + 1 ELSE @]
    /\ UNCHANGED <<running, service_state, thread, workers>>
    /\ LifecycleOnly

\* ari_client.run returns or raises (the connection to Asterisk ended):
\* the except and finally clauses of _service_main set running False and
\* "stopped"
WorkerLoopEnds(w) ==
    /\ workers[w] = "serving"
    /\ workers' = [workers EXCEPT ![w] = "unwinding"]
    /\ running' = FALSE
    /\ service_state' = "stopped"
    /\ UNCHANGED <<thread, total_calls_handled, lifecycle>>
    /\ LifecycleOnly

\* _run_service, finally: the loop is closed, running False and "stopped"
\* are set once more, the thread ends
WorkerExit(w) ==
    /\ workers[w] = "unwinding"
    /\ workers' = [workers EXCEPT ![w] = "dead"]
    /\ running' = FALSE
    /\ service_state' = "stopped"
    /\ UNCHANGED <<thread, total_calls_handled, lifecycle>>
    /\ LifecycleOnly

InitService == SessionIdle /\ ServicesIdle

NextService ==
    \/ ServiceStart
    \/ ServiceStop
    \/ \E w \in WorkerIds : WorkerSetupFails(w)
    \/ \E w \in WorkerIds : WorkerReady(w)
    \/ \E w \in WorkerIds : WorkerHandlesCall(w)
    \/ \E w \in WorkerIds : WorkerLoopEnds(w)
    \/ \E w \in WorkerIds : WorkerExit(w)

SpecService == InitService /\ [][NextService]_vars

\* ---------------------------------------------------------------------
\* Properties
\* ---------------------------------------------------------------------

RetryPromptsHeard == heard["retry_noinput"] + heard["retry_unclear"]

AfterLoop == {"final", "hangup", "cleanup", "done"}

\* C1: the loop starts at most max_turns iterations, and so at most
\* max_turns record operations, whatever the turns turn out to be
C1_TurnBound ==
    /\ iter <= max_turns
    /\ hist.records <= iter

\* a call that used all its iterations, with no-input, unclear and
\* successful turns among them
C1_Witness ==
    /\ hist.exit = "exhausted"
    /\ hist.records = max_turns
    /\ said["retry_noinput"] >= 1
    /\ said["retry_unclear"] >= 1
    /\ turn_count >= 1

\* C2: once the dialplan continuation of a transfer has succeeded, the
\* session sends no further channel command and leaves the loop in that
\* turn, whatever the follow-up model call does
C2_SilentAfterTransfer ==
    handedOff =>
        /\ hist.afterHandoff = 0
        /\ (pc = "done" => hist.exit = "transfer")

\* C3: a call-log row that was created is finalized whenever the session
\* has ended: end timestamp set, duration not negative
C3_LogFinalized ==
    (pc = "done" /\ call_log.state # "none") =>
        /\ call_log.state = "finalized"
        /\ call_log.call_duration >= 0

\* C4: an exception raised between answer and the end of the turn loop is
\* caught in handle_call: Call.hangup runs, cleanup finalizes the log, and
\* nothing leaves the handler
C4_ExceptionsCaught ==
    /\ hist.raised => (pc \in {"cleanup", "done"} /\ hist.hangupCalls = 1)
    /\ (hist.raised /\ pc = "done") =>
          (call_log.state = "finalized" /\ ~hist.escaped)

\* a cue inside the loop raised on a channel the session still took for
\* alive; the hangup command was sent and the log finalized
C4_Witness ==
    /\ pc = "done"
    /\ hist.raised
    /\ iter >= 2
    /\ hist.hangupIssued
    /\ call_log.state = "finalized"

C6_AtMostTwoRetryPrompts == RetryPromptsHeard <= 2

\* C6, amended: at most one "Didn't catch that" per run of silent turns and
\* at most one "Could you repeat that?" between two clear transcripts; both
\* counters reset, so only the turn budget bounds the prompts of a call
C6_RetryPromptsPerRun ==
    /\ hist.niRun <= 1
    /\ hist.ucRun <= 1
    /\ RetryPromptsHeard <= max_turns - 1

\* five retry prompts in one call, which then ends with the generic
\* sign-off and neither the apology nor the callback offer
C6_Witness ==
    /\ pc = "done"
    /\ RetryPromptsHeard = max_turns - 1
    /\ heard["thanks"] = 1
    /\ said["trouble"] = 0
    /\ said["callback"] = 0

C8_UnclearReset ==
    (transcribed /\ text.chars >= 3 /\ pc # "check_text") => unclear_count = 0

\* a three-character transcript that follows an unclear turn
C8_Witness ==
    /\ transcribed /\ text.chars = 3
    /\ pc # "check_text"
    /\ hist.ucBefore = 1
    /\ unclear_count = 0

\* C9: a transcript of at most four words that contains a goodbye phrase
\* is detected; from then on the farewell is spoken, no record operation
\* and no engine call follows, the loop is left and Call.hangup runs. A
\* goodbye in the first turn ends the call after exactly one recording
C9_GoodbyeEndsCall ==
    /\ (transcribed /\ text.words <= 4 /\ text.phrase /\ pc # "check_text") =>
          hist.byeAt = iter
    /\ hist.byeAt # 0 =>
          /\ iter = hist.byeAt
          /\ hist.records = hist.byeRecords
          /\ hist.engineCalls = hist.byeEngine
          /\ pc \in {"goodbye"} \cup AfterLoop
          /\ (pc \in AfterLoop => said["farewell"] = 1)
          /\ (pc = "done" => (hist.hangupCalls = 1 /\ hist.exit = "goodbye"))
    /\ (hist.byeAt = 1 /\ pc = "done") => hist.records = 1

\* "bye" as the first utterance: farewell heard, one recording, hung up
C9_Witness ==
    /\ pc = "done"
    /\ hist.byeAt = 1
    /\ heard["farewell"] = 1
    /\ hist.records = 1
    /\ hist.hangupIssued

\* C10: when all max_turns iterations completed and nothing ended the loop
\* early, the generic sign-off is spoken exactly once, after the loop, and
\* Call.hangup runs after it; if the sign-off was played the hangup command
\* is sent
C10_SignOffAfterLastTurn ==
    hist.exit = "exhausted" =>
        /\ pc \in AfterLoop
        /\ ~should_end
        /\ said["thanks"] = (IF pc = "final" THEN 0 ELSE 1)
        /\ (pc \in {"final", "hangup"} => hist.hangupCalls = 0)
        /\ (pc \in {"cleanup", "done"} => hist.hangupCalls = 1)
        /\ ((pc \in {"cleanup", "done"} /\ heard["thanks"] = 1) => hist.hangupIssued)

\* six engine turns, then the sign-off is heard and the channel hung up
C10_Witness ==
    /\ pc = "done"
    /\ hist.exit = "exhausted"
    /\ turn_count = max_turns
    /\ heard["thanks"] = 1
    /\ hist.hangupIssued

\* closing lines the caller heard: the farewell, the apology after the second
\* silent turn, the callback offer, and the generic sign-off
ClosingLinesHeard ==
    heard["farewell"] + heard["trouble"] + heard["callback"] + heard["thanks"]

\* C11: the generic sign-off is spoken only when the loop did not end by an
\* explicit termination (farewell, apology after the second silent turn,
\* callback offer after the second unclear turn, end_call): after any of
\* these it is not spoken, and the caller hears at most one closing line
C11_OneClosingLine ==
    /\ hist.exit \in {"goodbye", "no_input", "unclear", "should_end"} =>
            said["thanks"] = 0
    /\ ClosingLinesHeard <= 1

\* the end_call part alone: no sign-off once the termination flag is set
C11_NoSignOffAfterEndCall == should_end => said["thanks"] = 0

\* C12: when a model call of a turn raises (the first one or the follow-up
\* after a tool), get_ai_response returns the fallback utterance with no
\* tool name, and the session goes on to the next turn: if the loop is left
\* in that turn, it is because the turns are used up, the fallback could not
\* be played, or a channel command raised, never because the call was ended
C12_EngineFailureContinues ==
    resp = "fallback" =>
        /\ fn = NoFn
        /\ ~hist.escaped
        /\ (pc \in AfterLoop => hist.exit \in {"exhausted", "speak_failed", "exception"})

\* the first model call alone: its failure leaves the termination flag as
\* it was at the start of the turn, which is unset
C12_FirstCallFailureContinues ==
    (resp = "fallback" /\ tc_fn = NoFn) =>
        /\ fn = NoFn
        /\ ~should_end
        /\ (pc \in AfterLoop => hist.exit \in {"exhausted", "speak_failed", "exception"})

\* names of the tools executed so far in the call
ExecutedTools == { functions_called[i].name : i \in 1 .. Len(functions_called) }

\* C13: one model reply leads to at most one tool execution, and the tool
\* executed is the first tool call of the reply; the side effects of a call
\* (termination flag, transfer) come only from a tool in that position
C13_OnlyFirstToolExecuted ==
    /\ Len(functions_called) <= hist.engineCalls
    /\ pc = "followup" =>
            functions_called[Len(functions_called)].name = tool_calls[1]
    /\ should_end => "end_call" \in ExecutedTools
    /\ handedOff => "transfer_to_agent" \in ExecutedTools

\* a reply carrying create_ticket then end_call: the ticket tool ran, the
\* end_call entry was not read and the call is not marked as ending
C13_Witness ==
    /\ pc = "followup"
    /\ tool_calls = <<"create_ticket", "end_call">>
    /\ functions_called = <<[name |-> "create_ticket", success |-> FALSE]>>
    /\ ~should_end

\* session s has made two calls of get in a row on its cache, for the same
\* text, and both have returned
TwoGetsOfSameText(s) ==
    /\ Len(gets[s]) = 2
    /\ gets[s][1].key = gets[s][2].key
    /\ gets[s][2].ret # "pending"

\* C14 as claimed: for every outcome of synthesis and upload, two calls of
\* get in a row for the same text return the remote reference both times,
\* and the synthesis engine runs at most once over the two
C14_SameRemoteReferenceTwice ==
    \A s \in Sess :
        TwoGetsOfSameText(s) =>
            /\ gets[s][1].ret = "remote"
            /\ gets[s][2].ret = "remote"
            /\ gets[s][1].synth + gets[s][2].synth <= 1

\* C14 as the code has it: after a first call that returned the remote
\* reference the second call is a cache hit (same reference, no synthesis);
\* after a first call whose upload failed (local path returned) the second
\* call reuses the local file without synthesis and uploads again, giving
\* the remote reference or the local path; only after a first call whose
\* synthesis failed (nothing returned) does the second call synthesize again
C14_SecondGetReusesFirst ==
    \A s \in Sess :
        TwoGetsOfSameText(s) =>
            LET first == gets[s][1]
                second == gets[s][2]
            IN  /\ first.ret = "remote" => (second.ret = "remote" /\ second.synth = 0)
                /\ first.ret = "local" => (second.ret \in {"remote", "local"} /\ second.synth = 0)
                /\ first.ret = "null" => first.synth = 1
                /\ first.ret # "null" => first.synth + second.synth <= 1

\* a text synthesized and uploaded by the first call and served from the
\* index by the second
C14_Witness ==
    \E s \in Sess :
        /\ TwoGetsOfSameText(s)
        /\ gets[s][1] = [key |-> "k1", ret |-> "remote", synth |-> 1]
        /\ gets[s][2] = [key |-> "k1", ret |-> "remote", synth |-> 0]

\* result of the call of get that session s made last
LastRet(calls) == IF calls = << >> THEN "none" ELSE calls[Len(calls)].ret

C16_SynthesisFailureEndsByHangup ==
    (hist.ttsFailures > 0 /\ pc = "done" /\ hist.exit # "transfer") =>
        /\ hist.hangupCalls = 1
        /\ ~hist.escaped
        /\ call_log.state = "finalized"

\* the same for every phrase but the greeting
C16_AfterGreetingEndsByHangup ==
    (hist.ttsFailures > 0 /\ pc = "done" /\ hist.exit \notin {"transfer", "greeting_failed"}) =>
        /\ hist.hangupCalls = 1
        /\ ~hist.escaped
        /\ call_log.state = "finalized"

\* get returns (None, None) straight from the synthesis: no upload starts
\* and no index changes in that step
C16_NullWithoutUpload ==
    [][\A s \in Sess :
          LastRet(gets'[s]) = "null" /\ LastRet(gets[s]) = "pending" =>
              /\ get_pc[s] = "tts"
              /\ get_pc'[s] = "idle"
              /\ UNCHANGED <<index, index_file, sounds_dir, lock>>
      ]_vars

\* sessions whose upload is in progress (inside "async with self._lock")
Uploading == { s \in Sess : get_pc[s] = "uploading" }

\* C17: across all sessions running concurrently, at most one upload is in
\* progress at any time
C17_OneUploadAtATime == Cardinality(Uploading) <= 1

\* the same where every session is handed the one StandaloneSSH object
C17_SharedUploaderSerializes ==
    impl = "integrated" => Cardinality(Uploading) <= 1

\* pc values at which the result of record() is still to be tested
RecordReturned == {"beep_ack", "after_ack"}

NotFoundAt == { i \in 1 .. Len(dl_log) : dl_log[i].answer.status = 404 }

\* C19: the download makes at most 5 requests, returns the file at the first
\* accepted answer, sleeps longer after each further "not found" answer, and
\* returns null only once the fifth request has failed
C19_FiveAttemptsWithBackoff ==
    /\ Len(dl_log) <= 5
    /\ \A i \in 1 .. Len(dl_log) :
          DownloadAccepts(dl_log[i].answer.status, dl_log[i].answer.bytes) =>
              (i = Len(dl_log) /\ dl_result = "path")
    /\ dl_result = "path" =>
          DownloadAccepts(dl_log[Len(dl_log)].answer.status, dl_log[Len(dl_log)].answer.bytes)
    /\ \A i, j \in NotFoundAt : i < j => dl_log[i].wait < dl_log[j].wait
    /\ dl_result = "null" => Len(dl_log) = 5

\* the same for the loop of ai_agent_handler.py alone
C19_HandlerFiveAttempts ==
    impl = "handler" => C19_FiveAttemptsWithBackoff

\* C20: for a recording file smaller than 4000 bytes transcribe returns
\* ("", "low") and never gets to the recognition engine: no pre-processing
\* is run and no recognizer is invoked
C20_SmallFileSkipsRecognition ==
    (audio_file # NoFile /\ audio_file < 4000) =>
        /\ ~preprocessed
        /\ processed = "none"
        /\ recognitions = 0
        /\ tr_pc \in {"idle", "returned"}
        /\ (tr_pc = "returned" => tr_result = [text |-> << >>, confidence |-> "low"])

\* a file of 3999 bytes: transcribe has returned ("", "low")
C20_Witness ==
    /\ audio_file = 3999
    /\ tr_pc = "returned"
    /\ tr_result = EmptyLow
    /\ recognitions = 0

\* t is raw without its leading and trailing blanks
IsTrimOf(t, raw) ==
    /\ t # << >> => (t[1] # " " /\ t[Len(t)] # " ")
    /\ \E i \in 1 .. Len(raw) + 1, j \in 0 .. Len(raw) :
          /\ t = SubSeq(raw, i, j)
          /\ \A k \in 1 .. Len(raw) : (k < i \/ k > j) => raw[k] = " "

\* what every variant of transcribe does: it returns a pair, ("", "low")
\* when the engine was not reached, found no match, was cancelled or
\* raised, and the trimmed text when speech was recognized
TranscribeDegrades ==
    tr_pc = "returned" =>
        /\ tr_result.confidence \in {"high", "low"}
        /\ engine_result.reason \in {"none", "NoMatch", "Canceled", "raises"} =>
                tr_result = [text |-> << >>, confidence |-> "low"]
        /\ engine_result.reason = "RecognizedSpeech" => IsTrimOf(tr_result.text, engine_result.text)

\* C21 as claimed: transcribe never raises; the confidence is high exactly
\* when speech was recognized, with the trimmed text; every other engine_result
\* gives ("", "low"); and empty text never comes with high confidence
C21_HighExactlyWhenRecognized ==
    /\ TranscribeDegrades
    /\ tr_pc = "returned" =>
          /\ tr_result.confidence = "high" <=> engine_result.reason = "RecognizedSpeech"
          /\ ~(tr_result.text = << >> /\ tr_result.confidence = "high")

\* C21 as the code has it: a result of reason RecognizedSpeech whose text
\* is blank gives ("", "low") in ai_agent_integrated.py, where the confidence
\* is high exactly when the trimmed text is not empty, and ("", "high") in
\* ai_agent_handler.py, where it is high exactly when speech was recognized
C21_ConfidenceByModule ==
    /\ TranscribeDegrades
    /\ (tr_pc = "returned" /\ impl = "integrated") =>
          (tr_result.confidence = "high" <=>
              (engine_result.reason = "RecognizedSpeech" /\ tr_result.text # << >>))
    /\ (tr_pc = "returned" /\ impl = "handler") =>
          (tr_result.confidence = "high" <=> engine_result.reason = "RecognizedSpeech")

\* recognized speech with a leading blank: the text comes back trimmed,
\* with high confidence
C21_Witness ==
    /\ tr_pc = "returned"
    /\ engine_result = [reason |-> "RecognizedSpeech", text |-> <<" ", "a">>]
    /\ tr_result = [text |-> <<"a">>, confidence |-> "high"]

\* C22: whatever the customer lookup met, the lookup does not keep the
\* session from being created and its call log from being written: once the
\* lookup is over the call log exists
C22_LookupNeverPreventsSession ==
    pc \notin {"start", "create"} => call_log.state # "none"

\* positions of handle_call at which the next command is an audio cue
CuePositions == {"beep_greeting", "beep_ack", "beep_noinput", "beep_unclear", "beep_next"}

\* this step starts a recording
RecordingStarted == hist'.records > hist.records

\* this step starts a playback: a spoken line or an audio cue was accepted
PlaybackStarted ==
    \/ heard' # heard
    \/ pc \in CuePositions /\ pc' \notin {pc, "except"}

\* C23: a recording is never started, and a new playback never issued, while
\* the playback issued before it is still in progress
C23_OneMediaOperationAtATime ==
    [][(RecordingStarted \/ PlaybackStarted) => ~playing]_vars

\* the states of the session, as positions of handle_call: greeting up to
\* the cue after the greeting, the turn loop, the ending (sign-off, hangup,
\* except clause, cleanup), and terminated once handle_call has returned
PhaseRank(p) ==
    CASE p \in {"start", "create", "setup", "answer", "greeting", "beep_greeting"} -> 1
      [] p \in {"final", "hangup", "except", "cleanup"} -> 3
      [] p = "done" -> 4
      [] OTHER -> 2

\* C24: the session never goes back to an earlier state (greeting, turn
\* loop, ending, terminated), and once it has terminated it sends no channel
\* command, makes no model call and writes nothing to the call log
C24_PhasesInOrder ==
    [][/\ PhaseRank(pc') >= PhaseRank(pc)
       /\ pc = "done" => UNCHANGED <<pc, call_log, hist, said, heard, active, handedOff>>]_vars

\* a session that went through all four states and terminated after cleanup
C24_Witness ==
    /\ pc = "done"
    /\ call_log.state = "finalized"
    /\ heard["greeting"] = 1
    /\ hist.engineCalls > 0
    /\ hist.hangupIssued

\* C25: the callback offer is spoken only in a turn that directly follows
\* another unclear turn: at the start of that turn the unclear counter was 1
\* and the turn before it was not a no-input turn
C25_CallbackOnlyAfterConsecutiveUnclear ==
    said["callback"] > 0 => (hist.ucBefore = 1 /\ hist.nsBefore = 0)

\* C26: once a liveness check of the session has failed, the session sends
\* no play command, neither for a spoken line nor for an audio cue
C26_NoPlayAfterLivenessFailure == hist.playsAfterInactive = 0

\* some message of the sequence is the poor-audio instruction
HasPoorAudio(msgs) == \E i \in 1 .. Len(msgs) : msgs[i] = PoorAudio

\* the tool-call message directly followed by the tool result
HasToolExchange(msgs) ==
    \E i \in 1 .. Len(msgs) - 1 :
        msgs[i] = ToolMessages[1] /\ msgs[i + 1] = ToolMessages[2]

\* the turn that just returned executed a tool and made its follow-up call
ToolTurnReturned ==
    /\ ai_pc = "returned"
    /\ requests # << >>
    /\ ~requests[Len(requests)].tools
    /\ requests[Len(requests)].turn = ai_turn

\* C27: after a turn that executed a tool, the history of the session holds
\* the tool-call message followed by the tool result, and the follow-up
\* request of that turn carried them and offered no tools
C27_ToolExchangeInHistory ==
    ToolTurnReturned =>
        /\ HasToolExchange(conversation)
        /\ HasToolExchange(requests[Len(requests)].messages)
        /\ ~requests[Len(requests)].tools

OffersTools(r) == r.tools

\* the first request of every turn, in the order of the turns
FirstRequests == SelectSeq(requests, OffersTools)

EndCallExecuted ==
    /\ functions_called # << >>
    /\ functions_called[Len(functions_called)].name = "end_call"

\* what follows the execution of end_call whatever the follow-up call does:
\* the flag is set, the session never returns to the head of the loop or to
\* a recording, the sign-off is not spoken, and Call.hangup runs and leaves
\* no channel behind
EndCallEnds ==
    /\ should_end
    /\ pc \in {"followup", "save_turn", "speak_response"} \cup AfterLoop
    /\ said["thanks"] = 0
    /\ pc \in {"cleanup", "done"} => (hist.hangupCalls = 1 /\ ~chanUp)

\* the step that follows the saving of the turn passes the response of the
\* turn to speak and leaves the loop
ResponseSpokenThenLoopLeft ==
    (EndCallExecuted /\ pc = "speak_response" /\ pc' # pc) =>
        /\ said'["response"] = said["response"] + 1
        /\ pc' = "final"

C30_IndexedFilesArePlaced ==
    /\ index_file \subseteq sounds_dir
    /\ \A s \in Sess : index[s] \subseteq sounds_dir

\* C31: an entry once written to the index file is in every later content
\* of that file: no write of a session removes an entry, its own or another
\* session's
C31_IndexFileOnlyGrows ==
    [][index_file \subseteq index_file']_vars

\* C32: when transcribe has returned and _preprocess_audio had produced an
\* intermediate file, that file is gone, whatever the recognizer did
C32_IntermediateFileDeleted ==
    (tr_pc = "returned" /\ processed = "proc") => ~proc_file

\* C35: a session that has entered the try block of handle_call and has
\* reached cleanup without its channel handed to the dialplan has sent the
\* hangup command, or its channel is dead: no answered call is left open
C35_HangupBeforeCleanup ==
    (pc \in {"cleanup", "done"} /\ ~hist.escaped /\ ~handedOff) =>
        (hist.hangupIssued \/ ~chanUp)

\* positions of handle_call inside get_ai_response or between its return
\* and the saving of the turn
EnginePositions ==
    {"engine", "execute_function", "continue_dialplan", "followup", "save_turn"}

\* C36: get_ai_response is only called with confidence "high"; a
\* transcription of low confidence has an empty text and its turn never
\* reaches the engine
C36_EngineSeesHighConfidence ==
    /\ pc = "engine" => confidence = "high"
    /\ (transcribed /\ confidence = "low") =>
          (text.chars = 0 /\ pc \notin EnginePositions)

\* the engine is about to be called in the turn after an unclear one
C36_Witness ==
    /\ pc = "engine"
    /\ said["retry_unclear"] = 1
    /\ confidence = "high"
    /\ text.chars >= 3

\* C37: a finalized call log names a transfer target only if the dialplan
\* continuation of that call succeeded
C37_TransferredOnlyOnSuccess ==
    (call_log.state = "finalized" /\ call_log.transferred_to) => handedOff

\* session s is inside get, past the index lookup
InGet(s) == get_pc[s] \in {"tts", "upload", "uploading"}

\* the current call of get in session s has invoked the synthesis engine
HasSynthesized(s) == gets[s] # << >> /\ gets[s][Len(gets[s])].synth = 1

\* C39: two sessions that are inside get for the same phrase at the same
\* time do not both synthesize it and do not both upload it
C39_OneSynthesisOneUpload ==
    \A s, t \in Sess :
        (s # t /\ InGet(s) /\ InGet(t) /\ get_key[s] = get_key[t]) =>
            /\ ~(HasSynthesized(s) /\ HasSynthesized(t))
            /\ ~(get_pc[s] \in {"upload", "uploading"} /\ get_pc[t] \in {"upload", "uploading"})

\* C33: the turn rows of a call are numbered 1, 2, 3, ... in the order
\* they were written, there is one for each call of get_ai_response that
\* has been followed by its _save_turn, and the turn count of the finalized
\* call log is the number of rows
C33_TurnRowsNumbered ==
    /\ \A i \in 1 .. Len(turn_rows) : turn_rows[i] = i
    /\ pc # "save_turn" => Len(turn_rows) = ledger.engineCalls
    /\ call_log.state = "finalized" => call_log.turns_count = Len(turn_rows)

\* C34: the counters of the finalized call log are the numbers of no-input
\* turns and of unclear turns the call had
C34_CountersAreTotals ==
    call_log.state = "finalized" =>
        /\ call_log.no_speech_count = ledger.noInputTurns
        /\ call_log.unclear_count = ledger.unclearTurns

\* C38: a turn that took the no-input branch, the unclear branch or the
\* goodbye branch has left the conversation, the turn counter and the turn
\* rows as they were when the turn started
C38_UncountedTurnsLeaveNoTrace ==
    ledger.kind \in {"noinput", "unclear", "goodbye"} =>
        /\ conversation = ledger.convBefore
        /\ turn_count = ledger.turnsBefore
        /\ turn_rows = ledger.rowsBefore

\* an unclear turn that followed a turn answered by the engine: the two
\* messages and the row of the first turn are all there is
C38_Witness ==
    /\ pc = "loop"
    /\ ledger.kind = "unclear"
    /\ iter = 2
    /\ turn_count = 1
    /\ conversation = <<"system", "assistant", "user", "assistant">>
    /\ turn_rows = <<1>>

\* C40: while the service state is "stopped" no worker is inside the ARI
\* event loop, no call is handled after a stop that returned success, and
\* there are never two workers inside the event loop
C40_StoppedMeansNoWorker ==
    /\ service_state = "stopped" => Serving = {}
    /\ lifecycle.handledAfterStop = 0
    /\ Cardinality(Serving) <= 1

====
